---- MODULE Spec2Model ----
(***************************************************************************)
(* A model of offsite-apfs-backup: the common-snapshot resolver and the    *)
(* cloneability checks of package cloner, and the snapshot listing of      *)
(* package diskutil.                                                        *)
(*                                                                          *)
(* Indices of histories are kept 0-based in every result, as in the Go     *)
(* code; a TLA+ sequence is read at index + 1.                              *)
(***************************************************************************)
EXTENDS Integers, Sequences, FiniteSets, TLC

VARIABLES
    srcSnaps,    \* resolver: the source history handed to latestCommonSnapshot
    tgtSnaps,    \* resolver: the target history handed to latestCommonSnapshot
    resolved,    \* resolver: what latestCommonSnapshot returned, once done
    provider,    \* diskutil: what `diskutil apfs listsnapshots` answers
    listed,      \* diskutil: what ListSnapshots returned, once done
    volumes,     \* cloner: the volumes the du collaborator knows
    call,        \* cloner: the Cloneable or Clone call and its result, once done
    validated,   \* cloner: the Cloneable call made ahead of a Clone, once done
    invoked,     \* cloner: the restorer and du calls a Clone made that change volumes
    again        \* cloner: the same call made a second time and its result, once done

vars == <<srcSnaps, tgtSnaps, resolved, provider, listed, volumes, call, validated, invoked,
          again>>

Idle == "idle"

(***************************************************************************)
(* Bounds of the model.                                                     *)
(***************************************************************************)
MaxHistory == 3

(***************************************************************************)
(* Errors, by the message the code builds.                                  *)
(***************************************************************************)
NoErr == "nil"
ErrNoCommon == "source and target have no snapshots in common"
ErrSameLatest == "both source and target have the same latest snapshot"
ErrTargetAhead == "target has a snapshot ahead of source"

(***************************************************************************)
(* diskutil.Snapshot as package cloner reads it: latestCommonSnapshot      *)
(* compares the UUID alone. ZeroSnapshot is diskutil.Snapshot{}.            *)
(***************************************************************************)
ZeroSnapshot == [Name |-> "", UUID |-> ""]

SeqsUpTo(S, n) == UNION {[1..k -> S] : k \in 0..n}

UUIDsOf(history) == {history[i].UUID : i \in 1..Len(history)}

(***************************************************************************)
(* latestCommonSnapshotIndices: the inner loop over source, from index i.  *)
(* -1 stands for "the loop ended without a match".                          *)
(***************************************************************************)
RECURSIVE ScanSource(_, _, _)
ScanSource(source, ts, i) ==
    IF i >= Len(source) THEN -1
    ELSE IF source[i + 1].UUID = ts.UUID THEN i
    ELSE ScanSource(source, ts, i + 1)

(* The outer loop over target, from index j. *)
RECURSIVE ScanTarget(_, _, _)
ScanTarget(source, target, j) ==
    IF j >= Len(target)
    THEN [sourceIndex |-> 0, targetIndex |-> 0, exists |-> FALSE]
    ELSE LET s == ScanSource(source, target[j + 1], 0)
         IN  IF s >= 0
             THEN [sourceIndex |-> s, targetIndex |-> j, exists |-> TRUE]
             ELSE ScanTarget(source, target, j + 1)

(* Mutant: the loops nested the other way round (source outer). *)
RECURSIVE ScanSourceOuter(_, _, _)
ScanSourceOuter(source, target, i) ==
    IF i >= Len(source)
    THEN [sourceIndex |-> 0, targetIndex |-> 0, exists |-> FALSE]
    ELSE LET t == ScanSource(target, source[i + 1], 0)
         IN  IF t >= 0
             THEN [sourceIndex |-> i, targetIndex |-> t, exists |-> TRUE]
             ELSE ScanSourceOuter(source, target, i + 1)

latestCommonSnapshotIndices_SourceOuter(source, target) ==
    ScanSourceOuter(source, target, 0)

latestCommonSnapshotIndices(source, target) ==
    ScanTarget(source, target, 0)

Failure(e) == [snap |-> ZeroSnapshot, err |-> e]

(* Mutant: the "target ahead" test is missing. *)
latestCommonSnapshot_NoAheadCheck(source, target) ==
    LET c == latestCommonSnapshotIndices(source, target)
    IN  IF ~c.exists THEN Failure(ErrNoCommon)
        ELSE IF c.sourceIndex = 0 /\ c.targetIndex = 0 THEN Failure(ErrSameLatest)
        ELSE [snap |-> source[c.sourceIndex + 1], err |-> NoErr]

(* Mutant: the `exists` result is ignored. *)
latestCommonSnapshot_IgnoresExists(source, target) ==
    LET c == latestCommonSnapshotIndices(source, target)
    IN  IF c.sourceIndex = 0 /\ c.targetIndex = 0 THEN Failure(ErrSameLatest)
        ELSE IF c.sourceIndex = 0 THEN Failure(ErrTargetAhead)
        ELSE [snap |-> source[c.sourceIndex + 1], err |-> NoErr]

(* Mutant: the "target ahead" test comes before the "same latest" test. *)
latestCommonSnapshot_AheadFirst(source, target) ==
    LET c == latestCommonSnapshotIndices(source, target)
    IN  IF ~c.exists THEN Failure(ErrNoCommon)
        ELSE IF c.sourceIndex = 0 THEN Failure(ErrTargetAhead)
        ELSE [snap |-> source[c.sourceIndex + 1], err |-> NoErr]

(* Mutant: the "target ahead" test reads the target index. *)
latestCommonSnapshot_AheadByTarget(source, target) ==
    LET c == latestCommonSnapshotIndices(source, target)
    IN  IF ~c.exists THEN Failure(ErrNoCommon)
        ELSE IF c.sourceIndex = 0 /\ c.targetIndex = 0 THEN Failure(ErrSameLatest)
        ELSE IF c.targetIndex = 0 THEN Failure(ErrTargetAhead)
        ELSE [snap |-> source[c.sourceIndex + 1], err |-> NoErr]

latestCommonSnapshot(source, target) ==
    LET c == latestCommonSnapshotIndices(source, target)
    IN  IF ~c.exists THEN Failure(ErrNoCommon)
        ELSE IF c.sourceIndex = 0 /\ c.targetIndex = 0 THEN Failure(ErrSameLatest)
        ELSE IF c.sourceIndex = 0 THEN Failure(ErrTargetAhead)
        ELSE [snap |-> source[c.sourceIndex + 1], err |-> NoErr]

(***************************************************************************)
(* Package diskutil. A snapshot name is a sequence of one-character        *)
(* strings; a time.Time in UTC is the record of its civil fields, which    *)
(* Before orders as the instants are ordered.                               *)
(***************************************************************************)
ErrCommand == "diskutil apfs listsnapshots failed"
ErrNoTimestamp == "snapshot name does not contain a timestamp of the form yyyy-mm-dd-hhmmss"
ErrBadTime == "failed to parse time substring from snapshot name"
ErrOrder == "returned snapshots in an unexpected order"

(* The errors ListSnapshots wraps in validationError. *)
ValidationErrors == {ErrNoTimestamp, ErrBadTime, ErrOrder}

Digits == <<"0", "1", "2", "3", "4", "5", "6", "7", "8", "9">>

IsDigit(c) == \E k \in 1..Len(Digits) : Digits[k] = c

DigitValue(c) == (CHOOSE k \in 1..Len(Digits) : Digits[k] = c) - 1

(* The regular expression \d{4}-\d{2}-\d{2}-\d{6}, one entry per character. *)
timeRegex ==
    <<"d", "d", "d", "d", "-", "d", "d", "-", "d", "d", "-",
      "d", "d", "d", "d", "d", "d">>

MatchesAt(name, i) ==
    /\ i + Len(timeRegex) - 1 <= Len(name)
    /\ \A k \in 1..Len(timeRegex) :
           IF timeRegex[k] = "d"
           THEN IsDigit(name[i + k - 1])
           ELSE name[i + k - 1] = timeRegex[k]

(* regexp.FindString: the leftmost match, or the empty string. *)
RECURSIVE FindFrom(_, _)
FindFrom(name, i) ==
    IF i + Len(timeRegex) - 1 > Len(name) THEN <<>>
    ELSE IF MatchesAt(name, i) THEN SubSeq(name, i, i + Len(timeRegex) - 1)
    ELSE FindFrom(name, i + 1)

FindString(name) == FindFrom(name, 1)

RECURSIVE Atoi(_)
Atoi(ds) ==
    IF Len(ds) = 0 THEN 0
    ELSE 10 * Atoi(SubSeq(ds, 1, Len(ds) - 1)) + DigitValue(ds[Len(ds)])

isLeap(year) == year % 4 = 0 /\ (year % 100 # 0 \/ year % 400 = 0)

daysIn(month, year) ==
    IF month = 2 THEN (IF isLeap(year) THEN 29 ELSE 28)
    ELSE IF month \in {4, 6, 9, 11} THEN 30
    ELSE 31

ZeroTime == [year |-> 1, month |-> 1, day |-> 1, hour |-> 0, min |-> 0, sec |-> 0]

(***************************************************************************)
(* time.Parse("2006-01-02-150405", value) for a value the regular          *)
(* expression matched: the fields are read at their places in the layout   *)
(* and each is checked against its range.                                   *)
(***************************************************************************)
ParseTime(value) ==
    LET t == [year  |-> Atoi(SubSeq(value, 1, 4)),
              month |-> Atoi(SubSeq(value, 6, 7)),
              day   |-> Atoi(SubSeq(value, 9, 10)),
              hour  |-> Atoi(SubSeq(value, 12, 13)),
              min   |-> Atoi(SubSeq(value, 14, 15)),
              sec   |-> Atoi(SubSeq(value, 16, 17))]
    IN  IF \/ t.month < 1 \/ t.month > 12
           \/ t.hour >= 24
           \/ t.min >= 60
           \/ t.sec >= 60
           \/ t.day < 1 \/ t.day > daysIn(t.month, t.year)
        THEN [time |-> ZeroTime, ok |-> FALSE]
        ELSE [time |-> t, ok |-> TRUE]

(* Mutant: a name without a valid timestamp gets the zero time. *)
parseTimeFromSnapshotName_Default(name) ==
    LET timeMatch == FindString(name)
    IN  IF Len(timeMatch) = 0 THEN [created |-> ZeroTime, err |-> NoErr]
        ELSE LET parsed == ParseTime(timeMatch)
             IN  IF ~parsed.ok THEN [created |-> ZeroTime, err |-> NoErr]
                 ELSE [created |-> parsed.time, err |-> NoErr]

parseTimeFromSnapshotName(name) ==
    LET timeMatch == FindString(name)
    IN  IF Len(timeMatch) = 0 THEN [created |-> ZeroTime, err |-> ErrNoTimestamp]
        ELSE LET parsed == ParseTime(timeMatch)
             IN  IF ~parsed.ok THEN [created |-> ZeroTime, err |-> ErrBadTime]
                 ELSE [created |-> parsed.time, err |-> NoErr]

(* time.Time.Before *)
Before(a, b) ==
    LET fa == <<a.year, a.month, a.day, a.hour, a.min, a.sec>>
        fb == <<b.year, b.month, b.day, b.hour, b.min, b.sec>>
    IN  \E k \in 1..6 : fa[k] < fb[k] /\ \A m \in 1..(k - 1) : fa[m] = fb[m]

(***************************************************************************)
(* The loop of ListSnapshots that derives Created for each listed          *)
(* snapshot, from index i on, and returns at the first name that fails.    *)
(***************************************************************************)
RECURSIVE ParseAll(_, _, _)
ParseAll(list, i, snapshots) ==
    IF i > Len(list) THEN [snaps |-> snapshots, err |-> NoErr]
    ELSE LET parsed == parseTimeFromSnapshotName(list[i].Name)
         IN  IF parsed.err # NoErr THEN [snaps |-> <<>>, err |-> parsed.err]
             ELSE ParseAll(list, i + 1,
                      Append(snapshots, [Name    |-> list[i].Name,
                                         UUID    |-> list[i].UUID,
                                         Created |-> parsed.created]))

(* sort.SliceIsSorted with less(i, ii) = snapshots[i].Created.Before(...) *)
SliceIsSorted(snapshots) ==
    \A i \in 2..Len(snapshots) :
        ~Before(snapshots[i].Created, snapshots[i - 1].Created)

Reverse(s) == [i \in 1..Len(s) |-> s[Len(s) + 1 - i]]

(* Mutant: the order is not checked. *)
ListSnapshots_NoOrderCheck(reply) ==
    IF reply.fails THEN [snaps |-> <<>>, err |-> ErrCommand]
    ELSE LET parsed == ParseAll(reply.Snapshots, 1, <<>>)
         IN  IF parsed.err # NoErr THEN parsed
             ELSE [snaps |-> Reverse(parsed.snaps), err |-> NoErr]

(* Mutant: the list is returned as the provider gave it. *)
ListSnapshots_NoReverse(reply) ==
    IF reply.fails THEN [snaps |-> <<>>, err |-> ErrCommand]
    ELSE LET parsed == ParseAll(reply.Snapshots, 1, <<>>)
         IN  IF parsed.err # NoErr THEN parsed
             ELSE IF ~SliceIsSorted(parsed.snaps)
                  THEN [snaps |-> <<>>, err |-> ErrOrder]
                  ELSE [snaps |-> parsed.snaps, err |-> NoErr]

(***************************************************************************)
(* DiskUtil.ListSnapshots, given what the diskutil command and the plist   *)
(* decoding answered: fails, or the Snapshots array.                        *)
(***************************************************************************)
ListSnapshots(reply) ==
    IF reply.fails THEN [snaps |-> <<>>, err |-> ErrCommand]
    ELSE LET parsed == ParseAll(reply.Snapshots, 1, <<>>)
         IN  IF parsed.err # NoErr THEN parsed
             ELSE IF ~SliceIsSorted(parsed.snaps)
                  THEN [snaps |-> <<>>, err |-> ErrOrder]
                  ELSE [snaps |-> Reverse(parsed.snaps), err |-> NoErr]

(***************************************************************************)
(* The resolver on its own: every pair of histories up to MaxHistory long  *)
(* over ResolverSnapshots, which holds two snapshots of one UUID.           *)
(***************************************************************************)
ResolverSnapshots ==
    { [Name |-> "snap-1", UUID |-> "uuid-1"],
      [Name |-> "snap-2", UUID |-> "uuid-2"],
      [Name |-> "snap-3", UUID |-> "uuid-3"],
      [Name |-> "snap-1-again", UUID |-> "uuid-1"] }

NotResolved ==
    [done    |-> FALSE,
     indices |-> [sourceIndex |-> 0, targetIndex |-> 0, exists |-> FALSE],
     result  |-> Failure(NoErr)]

InitResolver ==
    /\ srcSnaps \in SeqsUpTo(ResolverSnapshots, MaxHistory)
    /\ tgtSnaps \in SeqsUpTo(ResolverSnapshots, MaxHistory)
    /\ resolved = NotResolved
    /\ provider = Idle
    /\ listed = Idle
    /\ volumes = Idle
    /\ call = Idle
    /\ validated = Idle
    /\ invoked = Idle
    /\ again = Idle

Resolve ==
    /\ ~resolved.done
    /\ resolved' = [done    |-> TRUE,
                    indices |-> latestCommonSnapshotIndices(srcSnaps, tgtSnaps),
                    result  |-> latestCommonSnapshot(srcSnaps, tgtSnaps)]
    /\ UNCHANGED <<srcSnaps, tgtSnaps, provider, listed, volumes, call, validated, invoked, again>>

NextResolver == Resolve

SpecResolver == InitResolver /\ [][NextResolver]_vars

Resolved == resolved.done

Min(S) == CHOOSE x \in S : \A y \in S : x <= y

(* The target positions (1-based) whose UUID occurs somewhere in source. *)
CommonTargetPositions ==
    {j \in 1..Len(tgtSnaps) : tgtSnaps[j].UUID \in UUIDsOf(srcSnaps)}

(* The source positions (1-based) that carry the UUID u. *)
SourcePositionsOf(u) == {i \in 1..Len(srcSnaps) : srcSnaps[i].UUID = u}

(***************************************************************************)
(* C1: when latestCommonSnapshot succeeds, the snapshot it returns is the  *)
(* source entry at the matched index, that index is greater than 0, its    *)
(* UUID occurs in both histories, and it is not source[0].                  *)
(***************************************************************************)
C1_SuccessIsOlderThanLatest ==
    (Resolved /\ resolved.result.err = NoErr) =>
        /\ resolved.indices.exists
        /\ resolved.indices.sourceIndex > 0
        /\ resolved.indices.sourceIndex < Len(srcSnaps)
        /\ resolved.result.snap = srcSnaps[resolved.indices.sourceIndex + 1]
        /\ resolved.result.snap.UUID \in UUIDsOf(srcSnaps) \cap UUIDsOf(tgtSnaps)
        /\ resolved.result.snap.UUID # srcSnaps[1].UUID

C1_Witness ==
    /\ Resolved
    /\ resolved.result.err = NoErr
    /\ resolved.indices.sourceIndex = 2
    /\ resolved.indices.targetIndex = 1

(***************************************************************************)
(* C2: the match is the lowest target index whose UUID occurs anywhere in  *)
(* source, paired with the lowest source index carrying that UUID; there   *)
(* is a match exactly when the histories share a UUID.                      *)
(***************************************************************************)
C2_FirstTargetThenFirstSource ==
    Resolved =>
        IF CommonTargetPositions = {}
        THEN ~resolved.indices.exists
        ELSE /\ resolved.indices.exists
             /\ resolved.indices.targetIndex + 1 = Min(CommonTargetPositions)
             /\ resolved.indices.sourceIndex + 1 =
                    Min(SourcePositionsOf(tgtSnaps[Min(CommonTargetPositions)].UUID))

(* Source's order would choose source[0]; target's order chooses source[1]. *)
C2_Witness ==
    /\ Resolved
    /\ resolved.indices.exists
    /\ resolved.indices.targetIndex = 0
    /\ resolved.indices.sourceIndex = 1
    /\ srcSnaps[1].UUID \in UUIDsOf(tgtSnaps)

(***************************************************************************)
(* C3: histories that share no UUID, empty ones included, give the         *)
(* "no snapshots in common" error and the zero Snapshot.                    *)
(***************************************************************************)
C3_NoCommonSnapshot ==
    (Resolved /\ UUIDsOf(srcSnaps) \cap UUIDsOf(tgtSnaps) = {}) =>
        resolved.result = [snap |-> ZeroSnapshot, err |-> ErrNoCommon]

C3_Witness ==
    /\ Resolved
    /\ Len(srcSnaps) >= 2
    /\ Len(tgtSnaps) >= 2
    /\ UUIDsOf(srcSnaps) \cap UUIDsOf(tgtSnaps) = {}
    /\ resolved.result.err = ErrNoCommon

(***************************************************************************)
(* C4: non-empty histories whose newest snapshots have the same UUID give  *)
(* the "same latest snapshot" error, whatever else the histories hold.      *)
(***************************************************************************)
C4_SameLatest ==
    (/\ Resolved
     /\ Len(srcSnaps) > 0
     /\ Len(tgtSnaps) > 0
     /\ srcSnaps[1].UUID = tgtSnaps[1].UUID) =>
        resolved.result = [snap |-> ZeroSnapshot, err |-> ErrSameLatest]

C4_Witness ==
    /\ Resolved
    /\ Len(srcSnaps) = 3
    /\ Len(tgtSnaps) = 3
    /\ srcSnaps[1].UUID = tgtSnaps[1].UUID
    /\ srcSnaps[2].UUID = tgtSnaps[3].UUID
    /\ srcSnaps[3].UUID # tgtSnaps[2].UUID
    /\ resolved.result.err = ErrSameLatest

(***************************************************************************)
(* C5: when the only UUID the histories share is that of source[0] and     *)
(* target[0] has another UUID, the result is the "target has a snapshot    *)
(* ahead of source" error.                                                  *)
(***************************************************************************)
C5_TargetAhead ==
    (/\ Resolved
     /\ Len(srcSnaps) > 0
     /\ Len(tgtSnaps) > 0
     /\ UUIDsOf(srcSnaps) \cap UUIDsOf(tgtSnaps) = {srcSnaps[1].UUID}
     /\ tgtSnaps[1].UUID # srcSnaps[1].UUID) =>
        resolved.result = [snap |-> ZeroSnapshot, err |-> ErrTargetAhead]

C5_Witness ==
    /\ Resolved
    /\ Len(srcSnaps) >= 2
    /\ Len(tgtSnaps) = 3
    /\ UUIDsOf(srcSnaps) \cap UUIDsOf(tgtSnaps) = {srcSnaps[1].UUID}
    /\ tgtSnaps[3].UUID = srcSnaps[1].UUID
    /\ tgtSnaps[1].UUID # srcSnaps[1].UUID
    /\ tgtSnaps[2].UUID # srcSnaps[1].UUID
    /\ resolved.result.err = ErrTargetAhead

(***************************************************************************)
(* C6: if a target snapshot newer than the matched common snapshot has a   *)
(* UUID that source lacks, latestCommonSnapshot returns an error.           *)
(***************************************************************************)
C6_RefusesWhenTargetHoldsWhatSourceLacks ==
    (/\ Resolved
     /\ resolved.indices.exists
     /\ \E j \in 1..resolved.indices.targetIndex :
            tgtSnaps[j].UUID \notin UUIDsOf(srcSnaps)) =>
        resolved.result.err # NoErr

(***************************************************************************)
(* ListSnapshots on its own. The names the provider may list are built     *)
(* from the civil time they are meant to carry, so that what the code      *)
(* derives from a name can be compared with what was put into it.          *)
(***************************************************************************)
MaxSnapshots == 3

At(y, mo, d, h, mi, s) ==
    [year |-> y, month |-> mo, day |-> d, hour |-> h, min |-> mi, sec |-> s]

TwoDigits(n) == <<Digits[(n \div 10) + 1], Digits[(n % 10) + 1]>>

FourDigits(n) == TwoDigits(n \div 100) \o TwoDigits(n % 100)

(* The text yyyy-mm-dd-hhmmss of the fields of t, in range or not. *)
Stamp(t) ==
    FourDigits(t.year) \o <<"-">> \o TwoDigits(t.month) \o <<"-">> \o
    TwoDigits(t.day) \o <<"-">> \o
    TwoDigits(t.hour) \o TwoDigits(t.min) \o TwoDigits(t.sec)

March == At(2021, 3, 2, 1, 23, 45)
April == At(2021, 4, 3, 1, 23, 45)
May == At(2021, 5, 4, 1, 23, 45)
LeapDay == At(2020, 2, 29, 23, 59, 59)

Dated(chars, t) == [name |-> chars, valid |-> TRUE, at |-> t]
Undated(chars) == [name |-> chars, valid |-> FALSE, at |-> ZeroTime]

(***************************************************************************)
(* The names of diskutil_test.go (shortened), and others around the edges  *)
(* of the pattern and of the ranges of the fields.                          *)
(***************************************************************************)
NamePool ==
    { Dated(<<"f", "o", "o", "-">> \o Stamp(March), March),
      Dated(<<"b", "a", "r", ".">> \o Stamp(April), April),
      Dated(<<"b", "a", "z", "_">> \o Stamp(May) \o <<"_", "s">>, May),
      Dated(<<"q", "u", "x", "-">> \o Stamp(April), April),
      Dated(Stamp(LeapDay), LeapDay),
      Dated(<<"2", "0", "2", "1", "-", "0", "3", "-">> \o Stamp(March), March),
      Undated(<<"f", "o", "o", "-", "n", "a", "m", "e">>),
      Undated(SubSeq(Stamp(March), 1, 16)),
      Undated(<<"f", "o", "o", "-">> \o Stamp(At(2021, 13, 1, 0, 0, 0))),
      Undated(<<"f", "o", "o", "-">> \o Stamp(At(2021, 2, 29, 0, 0, 0))),
      Undated(Stamp(At(2021, 3, 2, 24, 0, 0))),
      Undated(Stamp(At(2021, 3, 2, 1, 60, 0))),
      Undated(Stamp(At(2021, 3, 2, 1, 23, 60))),
      Undated(Stamp(At(2021, 13, 1, 0, 0, 0)) \o <<".">> \o Stamp(March)) }

(* What was put into a name of the pool. *)
TruthOf(chars) == CHOOSE e \in NamePool : e.name = chars

ProviderUUIDs == <<"uuid-1", "uuid-2", "uuid-3", "uuid-4", "uuid-5">>

Listing(entries) ==
    [fails     |-> FALSE,
     Snapshots |-> [i \in 1..Len(entries) |->
                       [Name |-> entries[i].name, UUID |-> ProviderUUIDs[i]]]]

NotListed == [done |-> FALSE, snaps |-> <<>>, err |-> NoErr]

InitListSnapshots ==
    /\ provider \in {[fails |-> TRUE, Snapshots |-> <<>>]}
                    \cup {Listing(entries) : entries \in SeqsUpTo(NamePool, MaxSnapshots)}
    /\ listed = NotListed
    /\ srcSnaps = Idle
    /\ tgtSnaps = Idle
    /\ resolved = Idle
    /\ volumes = Idle
    /\ call = Idle
    /\ validated = Idle
    /\ invoked = Idle
    /\ again = Idle

List ==
    /\ ~listed.done
    /\ listed' = [done  |-> TRUE,
                  snaps |-> ListSnapshots(provider).snaps,
                  err   |-> ListSnapshots(provider).err]
    /\ UNCHANGED <<srcSnaps, tgtSnaps, resolved, provider, volumes, call, validated, invoked, again>>

NextListSnapshots == List

SpecListSnapshots == InitListSnapshots /\ [][NextListSnapshots]_vars

Listed == listed.done /\ ~provider.fails

ListedCount == Len(provider.Snapshots)

ProviderTruth(i) == TruthOf(provider.Snapshots[i].Name)

AllDated == \A i \in 1..ListedCount : ProviderTruth(i).valid

(* Oldest first: no entry is older than an entry before it. *)
SortedOldestFirst ==
    /\ AllDated
    /\ \A i, j \in 1..ListedCount :
           i < j => ~Before(ProviderTruth(j).at, ProviderTruth(i).at)

(***************************************************************************)
(* C7: a provider list sorted oldest-first by the timestamps in its names  *)
(* comes back reversed, entry for entry, with those timestamps as Created  *)
(* (the empty list comes back empty); any other list gives a validation    *)
(* error and no list.                                                       *)
(***************************************************************************)
C7_ReversedOrRejected ==
    Listed =>
        IF SortedOldestFirst
        THEN /\ listed.err = NoErr
             /\ Len(listed.snaps) = ListedCount
             /\ \A i \in 1..ListedCount :
                    listed.snaps[i] =
                        [Name    |-> provider.Snapshots[ListedCount + 1 - i].Name,
                         UUID    |-> provider.Snapshots[ListedCount + 1 - i].UUID,
                         Created |-> ProviderTruth(ListedCount + 1 - i).at]
        ELSE /\ listed.err \in ValidationErrors
             /\ listed.snaps = <<>>

C7_Witness ==
    /\ Listed
    /\ listed.err = NoErr
    /\ Len(listed.snaps) = 3
    /\ listed.snaps[1].Created = May
    /\ listed.snaps[2].Created = March
    /\ listed.snaps[3].Created = LeapDay

(***************************************************************************)
(* C8 as claimed: a history ListSnapshots returns is strictly newest       *)
(* first: each entry was created strictly later than the entry after it.   *)
(***************************************************************************)
C8_StrictlyNewestFirst ==
    (listed.done /\ listed.err = NoErr) =>
        \A i \in 1..(Len(listed.snaps) - 1) :
            Before(listed.snaps[i + 1].Created, listed.snaps[i].Created)

(***************************************************************************)
(* C8 as amended: a history ListSnapshots returns is newest first, not     *)
(* strictly: no entry was created earlier than the entry after it, and a   *)
(* list with equal timestamps is accepted.                                  *)
(***************************************************************************)
C8_NewestFirst ==
    (listed.done /\ listed.err = NoErr) =>
        \A i \in 1..(Len(listed.snaps) - 1) :
            ~Before(listed.snaps[i].Created, listed.snaps[i + 1].Created)

C8_Witness ==
    /\ Listed
    /\ listed.err = NoErr
    /\ Len(listed.snaps) = 3
    /\ listed.snaps[1].Created = listed.snaps[2].Created
    /\ listed.snaps[1].Name # listed.snaps[2].Name
    /\ Before(listed.snaps[3].Created, listed.snaps[2].Created)

(***************************************************************************)
(* C9: when a listed name holds no yyyy-mm-dd-hhmmss text, or the text it  *)
(* holds is no date-time, ListSnapshots returns one of the two validation  *)
(* errors of parseTimeFromSnapshotName and no list.                         *)
(***************************************************************************)
C9_UndatedNameIsAnError ==
    (Listed /\ ~AllDated) =>
        /\ listed.err \in {ErrNoTimestamp, ErrBadTime}
        /\ listed.err \in ValidationErrors
        /\ listed.snaps = <<>>

C9_Witness ==
    /\ Listed
    /\ ListedCount = 3
    /\ ProviderTruth(1).valid
    /\ ProviderTruth(2).valid
    /\ ~ProviderTruth(3).valid
    /\ listed.err = ErrBadTime
    /\ listed.snaps = <<>>

(***************************************************************************)
(* Package cloner: Cloneable. The du collaborator is a set of volumes;     *)
(* each has the VolumeInfo that Info answers, the history (newest first)   *)
(* that ListSnapshots answers, and whether listing it fails.                *)
(***************************************************************************)
ErrInvalidSource == "invalid source volume: info failed"
ErrSourceNotAPFS == "invalid source volume: does not contain an APFS file system"
ErrListSource == "error listing snapshots of source"
ErrSourceNoSnapshots == "invalid source: no snapshots to clone"
ErrNoTargets == "no targets"
ErrInvalidTarget == "invalid target volume: info failed"
ErrSameVolume == "source and target must be different volumes"
ErrDuplicateTarget == "invalid target: is the same as another target"
ErrTargetNotAPFS == "invalid target volume: does not contain an APFS file system"
ErrFileSystem == "invalid source + target combination: formatted differently"
ErrNotWritable == "invalid target volume: volume not writable"
ErrListTarget == "error listing snapshots of target"
ErrTargetHasSnapshots == "invalid target: target has snapshots - erase the disk before using initialize"
ErrVolumeNotFound == "volume not found"
ErrListFailed == "listing snapshots failed"

ZeroVolumeInfo ==
    [UUID |-> "", Name |-> "", MountPoint |-> "", Writable |-> FALSE,
     FileSystemType |-> "", FileSystem |-> ""]

(* du.Info: the volume that the locator names by UUID or by mount point. *)
duInfo(vols, locator) ==
    LET hits == {v \in DOMAIN vols :
                    locator \in {vols[v].info.UUID, vols[v].info.MountPoint}}
    IN  IF hits = {} THEN [info |-> ZeroVolumeInfo, err |-> ErrVolumeNotFound]
        ELSE [info |-> vols[CHOOSE v \in hits : TRUE].info, err |-> NoErr]

(* du.ListSnapshots: the history of the volume with the UUID of info. *)
duListSnapshots(vols, info) ==
    IF vols[info.UUID].listFails THEN [snaps |-> <<>>, err |-> ErrListFailed]
    ELSE [snaps |-> vols[info.UUID].snaps, err |-> NoErr]

(* Cloner.cloneable *)
cloneable(initTargets, sourceSnaps, targetSnaps) ==
    IF ~initTargets THEN latestCommonSnapshot(sourceSnaps, targetSnaps).err
    ELSE IF Len(targetSnaps) > 0 THEN ErrTargetHasSnapshots
    ELSE NoErr

(* targetUUIDs[uuid] of the Go map: "" for a key that is absent. *)
MapGet(m, key) == IF key \in DOMAIN m THEN m[key] ELSE ""

MapPut(m, key, value) ==
    [k \in DOMAIN m \cup {key} |-> IF k = key THEN value ELSE m[k]]

(* Mutant: a target that is the source volume is passed over, not refused. *)
CheckTarget_SkipsSameVolume(vols, initTargets, sourceInfo, sourceSnaps, t, targetUUIDs) ==
    LET target == duInfo(vols, t)
        targetInfo == target.info
    IN  IF target.err # NoErr THEN ErrInvalidTarget
        ELSE IF sourceInfo.UUID = targetInfo.UUID THEN NoErr
        ELSE IF MapGet(targetUUIDs, targetInfo.UUID) # "" THEN ErrDuplicateTarget
        ELSE IF targetInfo.FileSystemType # "apfs" THEN ErrTargetNotAPFS
        ELSE IF sourceInfo.FileSystem # targetInfo.FileSystem THEN ErrFileSystem
        ELSE IF ~targetInfo.Writable THEN ErrNotWritable
        ELSE LET targetSnaps == duListSnapshots(vols, targetInfo)
             IN  IF targetSnaps.err # NoErr THEN ErrListTarget
                 ELSE cloneable(initTargets, sourceSnaps, targetSnaps.snaps)

(* Mutant: a volume may be named twice among the targets. *)
CheckTarget_NoDuplicateCheck(vols, initTargets, sourceInfo, sourceSnaps, t, targetUUIDs) ==
    LET target == duInfo(vols, t)
        targetInfo == target.info
    IN  IF target.err # NoErr THEN ErrInvalidTarget
        ELSE IF sourceInfo.UUID = targetInfo.UUID THEN ErrSameVolume
        ELSE IF targetInfo.FileSystemType # "apfs" THEN ErrTargetNotAPFS
        ELSE IF sourceInfo.FileSystem # targetInfo.FileSystem THEN ErrFileSystem
        ELSE IF ~targetInfo.Writable THEN ErrNotWritable
        ELSE LET targetSnaps == duListSnapshots(vols, targetInfo)
             IN  IF targetSnaps.err # NoErr THEN ErrListTarget
                 ELSE cloneable(initTargets, sourceSnaps, targetSnaps.snaps)

(* Mutant: a target that is not writable is accepted. *)
CheckTarget_NoWritableCheck(vols, initTargets, sourceInfo, sourceSnaps, t, targetUUIDs) ==
    LET target == duInfo(vols, t)
        targetInfo == target.info
    IN  IF target.err # NoErr THEN ErrInvalidTarget
        ELSE IF sourceInfo.UUID = targetInfo.UUID THEN ErrSameVolume
        ELSE IF MapGet(targetUUIDs, targetInfo.UUID) # "" THEN ErrDuplicateTarget
        ELSE IF targetInfo.FileSystemType # "apfs" THEN ErrTargetNotAPFS
        ELSE IF sourceInfo.FileSystem # targetInfo.FileSystem THEN ErrFileSystem
        ELSE LET targetSnaps == duListSnapshots(vols, targetInfo)
             IN  IF targetSnaps.err # NoErr THEN ErrListTarget
                 ELSE cloneable(initTargets, sourceSnaps, targetSnaps.snaps)

(* Mutant: the file systems of source and target are not compared. *)
CheckTarget_NoFileSystemCheck(vols, initTargets, sourceInfo, sourceSnaps, t, targetUUIDs) ==
    LET target == duInfo(vols, t)
        targetInfo == target.info
    IN  IF target.err # NoErr THEN ErrInvalidTarget
        ELSE IF sourceInfo.UUID = targetInfo.UUID THEN ErrSameVolume
        ELSE IF MapGet(targetUUIDs, targetInfo.UUID) # "" THEN ErrDuplicateTarget
        ELSE IF targetInfo.FileSystemType # "apfs" THEN ErrTargetNotAPFS
        ELSE IF ~targetInfo.Writable THEN ErrNotWritable
        ELSE LET targetSnaps == duListSnapshots(vols, targetInfo)
             IN  IF targetSnaps.err # NoErr THEN ErrListTarget
                 ELSE cloneable(initTargets, sourceSnaps, targetSnaps.snaps)

(***************************************************************************)
(* The body of the loop of Cloneable over targets, for the target t: the   *)
(* error it returns with, or NoErr when the loop goes on.                   *)
(***************************************************************************)
CheckTarget(vols, initTargets, sourceInfo, sourceSnaps, t, targetUUIDs) ==
    LET target == duInfo(vols, t)
        targetInfo == target.info
    IN  IF target.err # NoErr THEN ErrInvalidTarget
        ELSE IF sourceInfo.UUID = targetInfo.UUID THEN ErrSameVolume
        ELSE IF MapGet(targetUUIDs, targetInfo.UUID) # "" THEN ErrDuplicateTarget
        ELSE IF targetInfo.FileSystemType # "apfs" THEN ErrTargetNotAPFS
        ELSE IF sourceInfo.FileSystem # targetInfo.FileSystem THEN ErrFileSystem
        ELSE IF ~targetInfo.Writable THEN ErrNotWritable
        ELSE LET targetSnaps == duListSnapshots(vols, targetInfo)
             IN  IF targetSnaps.err # NoErr THEN ErrListTarget
                 ELSE cloneable(initTargets, sourceSnaps, targetSnaps.snaps)

(* The loop of Cloneable over targets, from the i-th (1-based) on. *)
RECURSIVE CheckTargets(_, _, _, _, _, _, _)
CheckTargets(vols, initTargets, sourceInfo, sourceSnaps, targets, i, targetUUIDs) ==
    IF i > Len(targets) THEN NoErr
    ELSE LET err == CheckTarget(vols, initTargets, sourceInfo, sourceSnaps,
                                targets[i], targetUUIDs)
         IN  IF err # NoErr THEN err
             ELSE CheckTargets(vols, initTargets, sourceInfo, sourceSnaps, targets,
                      i + 1,
                      MapPut(targetUUIDs, duInfo(vols, targets[i]).info.UUID, targets[i]))

(* Mutant: a source without snapshots is accepted. *)
Cloneable_NoEmptySourceCheck(vols, initTargets, source, targets) ==
    LET sourceInfo == duInfo(vols, source)
    IN  IF sourceInfo.err # NoErr THEN ErrInvalidSource
        ELSE IF sourceInfo.info.FileSystemType # "apfs" THEN ErrSourceNotAPFS
        ELSE LET sourceSnaps == duListSnapshots(vols, sourceInfo.info)
             IN  IF sourceSnaps.err # NoErr THEN ErrListSource
                 ELSE IF Len(targets) = 0 THEN ErrNoTargets
                 ELSE CheckTargets(vols, initTargets, sourceInfo.info,
                                   sourceSnaps.snaps, targets, 1, <<>>)

(* Cloner.Cloneable: the error it returns, NoErr for nil. *)
Cloneable(vols, initTargets, source, targets) ==
    LET sourceInfo == duInfo(vols, source)
    IN  IF sourceInfo.err # NoErr THEN ErrInvalidSource
        ELSE IF sourceInfo.info.FileSystemType # "apfs" THEN ErrSourceNotAPFS
        ELSE LET sourceSnaps == duListSnapshots(vols, sourceInfo.info)
             IN  IF sourceSnaps.err # NoErr THEN ErrListSource
                 ELSE IF Len(sourceSnaps.snaps) = 0 THEN ErrSourceNoSnapshots
                 ELSE IF Len(targets) = 0 THEN ErrNoTargets
                 ELSE CheckTargets(vols, initTargets, sourceInfo.info,
                                   sourceSnaps.snaps, targets, 1, <<>>)

(***************************************************************************)
(* The calls Cloneable makes on its DiskUtil, in order. A call is the      *)
(* operation with the volume it is made on (the locator for Info, the UUID *)
(* of the VolumeInfo otherwise) and the snapshot it names, if any.          *)
(***************************************************************************)
DiskUtilCall(op, volume, snap) == [op |-> op, volume |-> volume, snap |-> snap]

(* The calls of one round of the loop over targets, for the target t. *)
CheckTargetCalls(vols, sourceInfo, t, targetUUIDs) ==
    LET target == duInfo(vols, t)
        targetInfo == target.info
        info == <<DiskUtilCall("Info", t, ZeroSnapshot)>>
    IN  IF \/ target.err # NoErr
           \/ sourceInfo.UUID = targetInfo.UUID
           \/ MapGet(targetUUIDs, targetInfo.UUID) # ""
           \/ targetInfo.FileSystemType # "apfs"
           \/ sourceInfo.FileSystem # targetInfo.FileSystem
           \/ ~targetInfo.Writable
        THEN info
        ELSE info \o <<DiskUtilCall("ListSnapshots", targetInfo.UUID, ZeroSnapshot)>>

RECURSIVE CheckTargetsCalls(_, _, _, _, _, _, _)
CheckTargetsCalls(vols, initTargets, sourceInfo, sourceSnaps, targets, i, targetUUIDs) ==
    IF i > Len(targets) THEN <<>>
    ELSE LET calls == CheckTargetCalls(vols, sourceInfo, targets[i], targetUUIDs)
             err == CheckTarget(vols, initTargets, sourceInfo, sourceSnaps,
                                targets[i], targetUUIDs)
         IN  IF err # NoErr THEN calls
             ELSE calls \o
                  CheckTargetsCalls(vols, initTargets, sourceInfo, sourceSnaps, targets,
                      i + 1,
                      MapPut(targetUUIDs, duInfo(vols, targets[i]).info.UUID, targets[i]))

(* Mutant: Cloneable also deletes the newest snapshot of the source. *)
CloneableCalls_DeletesFromSource(vols, initTargets, source, targets) ==
    LET sourceInfo == duInfo(vols, source)
        info == <<DiskUtilCall("Info", source, ZeroSnapshot)>>
    IN  IF sourceInfo.err # NoErr \/ sourceInfo.info.FileSystemType # "apfs" THEN info
        ELSE LET sourceSnaps == duListSnapshots(vols, sourceInfo.info)
                 list == <<DiskUtilCall("ListSnapshots", sourceInfo.info.UUID,
                                        ZeroSnapshot)>>
             IN  IF \/ sourceSnaps.err # NoErr
                    \/ Len(sourceSnaps.snaps) = 0
                 THEN info \o list
                 ELSE info \o list \o
                      <<DiskUtilCall("DeleteSnapshot", sourceInfo.info.UUID,
                                     sourceSnaps.snaps[1])>> \o
                      CheckTargetsCalls(vols, initTargets, sourceInfo.info,
                                        sourceSnaps.snaps, targets, 1, <<>>)

(* The calls of Cloner.Cloneable. *)
CloneableCalls(vols, initTargets, source, targets) ==
    LET sourceInfo == duInfo(vols, source)
        info == <<DiskUtilCall("Info", source, ZeroSnapshot)>>
    IN  IF sourceInfo.err # NoErr \/ sourceInfo.info.FileSystemType # "apfs" THEN info
        ELSE LET sourceSnaps == duListSnapshots(vols, sourceInfo.info)
                 list == <<DiskUtilCall("ListSnapshots", sourceInfo.info.UUID,
                                        ZeroSnapshot)>>
             IN  IF \/ sourceSnaps.err # NoErr
                    \/ Len(sourceSnaps.snaps) = 0
                    \/ Len(targets) = 0
                 THEN info \o list
                 ELSE info \o list \o
                      CheckTargetsCalls(vols, initTargets, sourceInfo.info,
                                        sourceSnaps.snaps, targets, 1, <<>>)

(***************************************************************************)
(* The volumes after a call on the DiskUtil: Info and ListSnapshots read,  *)
(* DeleteSnapshot removes the snapshot with the given UUID from the volume. *)
(***************************************************************************)
duAfter(vols, c) ==
    IF c.op = "DeleteSnapshot"
    THEN [vols EXCEPT ![c.volume].snaps = SelectSeq(@, LAMBDA s : s.UUID # c.snap.UUID)]
    ELSE vols

RECURSIVE duAfterAll(_, _)
duAfterAll(vols, calls) ==
    IF calls = <<>> THEN vols ELSE duAfterAll(duAfter(vols, Head(calls)), Tail(calls))

(***************************************************************************)
(* The volumes of the cloner's world: a source, a target of every kind,    *)
(* and a second target.                                                     *)
(***************************************************************************)
MaxTargets == 2

Snap1 == [Name |-> "snap-1", UUID |-> "uuid-1"]
Snap2 == [Name |-> "snap-2", UUID |-> "uuid-2"]

Histories == {<<>>, <<Snap1>>, <<Snap2, Snap1>>}

Formats ==
    { [FileSystemType |-> "apfs", FileSystem |-> "APFS"],
      [FileSystemType |-> "apfs", FileSystem |-> "Case-sensitive APFS"],
      [FileSystemType |-> "hfs", FileSystem |-> "HFS+"] }

Volume(uuid, name, mount, writable, format, snaps, listFails) ==
    [info |-> [UUID |-> uuid, Name |-> name, MountPoint |-> mount,
               Writable |-> writable,
               FileSystemType |-> format.FileSystemType,
               FileSystem |-> format.FileSystem],
     snaps |-> snaps,
     listFails |-> listFails]

SourceVolumes ==
    {Volume("123-source-uuid", "source-name", "/source/mount/point",
            FALSE, f, h, FALSE) : f \in Formats, h \in Histories}
    \cup {Volume("123-source-uuid", "source-name", "/source/mount/point",
                 FALSE, f, <<>>, TRUE) : f \in Formats}

Target1Volumes ==
    {Volume("123-target1-uuid", "target1-name", "/target1/mount/point",
            w, f, h, FALSE) : w \in BOOLEAN, f \in Formats, h \in Histories}
    \cup {Volume("123-target1-uuid", "target1-name", "/target1/mount/point",
                 TRUE, f, <<>>, TRUE) : f \in Formats}

Target2Volumes ==
    {Volume("123-target2-uuid", "target2-name", "/target2/mount/point",
            TRUE, f, h, FALSE) :
        f \in {g \in Formats : g.FileSystem = "APFS"},
        h \in {<<>>, <<Snap1>>}}

SourceLocators == {"123-source-uuid", "not-a-volume-uuid"}

TargetLocators ==
    {"/source/mount/point", "123-target1-uuid", "/target1/mount/point",
     "123-target2-uuid", "not-a-volume-uuid"}

NotCalled ==
    [done |-> FALSE, initTargets |-> FALSE, source |-> "", targets |-> <<>>,
     err |-> NoErr]

InitCloneable ==
    /\ \E s \in SourceVolumes, t1 \in Target1Volumes, t2 \in Target2Volumes :
           volumes = (s.info.UUID :> s) @@ (t1.info.UUID :> t1) @@ (t2.info.UUID :> t2)
    /\ call = NotCalled
    /\ srcSnaps = Idle
    /\ tgtSnaps = Idle
    /\ resolved = Idle
    /\ provider = Idle
    /\ listed = Idle
    /\ validated = Idle
    /\ invoked = <<>>
    /\ again = [done |-> FALSE, err |-> NoErr, invoked |-> <<>>]

(* c.Cloneable(source, targets...) on a Cloner with the given initTargets. *)
CallCloneable ==
    /\ ~call.done
    /\ \E initTargets \in BOOLEAN, source \in SourceLocators,
          targets \in SeqsUpTo(TargetLocators, MaxTargets) :
           LET calls == CloneableCalls(volumes, initTargets, source, targets)
           IN  /\ call' = [done |-> TRUE, initTargets |-> initTargets,
                           source |-> source, targets |-> targets,
                           err |-> Cloneable(volumes, initTargets, source, targets)]
               /\ invoked' = calls
               /\ volumes' = duAfterAll(volumes, calls)
    /\ UNCHANGED <<srcSnaps, tgtSnaps, resolved, provider, listed, validated, again>>

(* The same Cloner is asked again, with the same arguments. *)
CallCloneableAgain ==
    /\ call.done
    /\ ~again.done
    /\ LET calls == CloneableCalls(volumes, call.initTargets, call.source, call.targets)
       IN  /\ again' = [done |-> TRUE,
                        err |-> Cloneable(volumes, call.initTargets, call.source,
                                          call.targets),
                        invoked |-> calls]
           /\ volumes' = duAfterAll(volumes, calls)
    /\ UNCHANGED <<srcSnaps, tgtSnaps, resolved, provider, listed, call, validated,
                   invoked>>

NextCloneable == CallCloneable \/ CallCloneableAgain

SpecCloneable == InitCloneable /\ [][NextCloneable]_vars

(* What Info answers for the source and for the i-th target of the call. *)
CallSource == duInfo(volumes, call.source)

CallTarget(i) == duInfo(volumes, call.targets[i])

(***************************************************************************)
(* C10: when the FileSystem of the source differs from the FileSystem of   *)
(* some target, Cloneable returns an error, in either mode and whatever    *)
(* the histories of the volumes are.                                        *)
(***************************************************************************)
C10_FileSystemMismatchIsAnError ==
    (/\ call.done
     /\ CallSource.err = NoErr
     /\ \E i \in 1..Len(call.targets) :
            /\ CallTarget(i).err = NoErr
            /\ CallTarget(i).info.FileSystem # CallSource.info.FileSystem) =>
        call.err # NoErr

(* The first target passes every check; the second differs in FileSystem. *)
C10_Witness ==
    /\ call.done
    /\ call.initTargets
    /\ Len(call.targets) = 2
    /\ CallSource.err = NoErr
    /\ CallSource.info.FileSystemType = "apfs"
    /\ CallTarget(1).err = NoErr
    /\ CallTarget(1).info.FileSystem = CallSource.info.FileSystem
    /\ CallTarget(2).err = NoErr
    /\ CallTarget(2).info.FileSystemType = "apfs"
    /\ CallTarget(2).info.FileSystem # CallSource.info.FileSystem
    /\ volumes[CallTarget(2).info.UUID].snaps = <<>>
    /\ call.err = ErrFileSystem

(***************************************************************************)
(* C11: when a target resolves to the volume that the source resolves to,  *)
(* Cloneable returns an error, also when the two locators differ.           *)
(***************************************************************************)
C11_SameVolumeIsAnError ==
    (/\ call.done
     /\ CallSource.err = NoErr
     /\ \E i \in 1..Len(call.targets) :
            /\ CallTarget(i).err = NoErr
            /\ CallTarget(i).info.UUID = CallSource.info.UUID) =>
        call.err # NoErr

(* The source by UUID and, after a target that passes, by mount point. *)
C11_Witness ==
    /\ call.done
    /\ Len(call.targets) = 2
    /\ CallSource.err = NoErr
    /\ CallTarget(1).err = NoErr
    /\ CallTarget(1).info.UUID # CallSource.info.UUID
    /\ CallTarget(2).err = NoErr
    /\ CallTarget(2).info.UUID = CallSource.info.UUID
    /\ call.targets[2] # call.source
    /\ call.err = ErrSameVolume

(***************************************************************************)
(* C12: when two entries of targets resolve to one volume, Cloneable       *)
(* returns an error, also when the two locators differ; it returns nil     *)
(* only if the targets resolve to pairwise distinct volumes.                *)
(***************************************************************************)
C12_DuplicateTargetIsAnError ==
    /\ (/\ call.done
         /\ \E i, j \in 1..Len(call.targets) :
                /\ i < j
                /\ CallTarget(i).err = NoErr
                /\ CallTarget(j).err = NoErr
                /\ CallTarget(i).info.UUID = CallTarget(j).info.UUID) =>
            call.err # NoErr
    /\ (call.done /\ call.err = NoErr) =>
            \A i, j \in 1..Len(call.targets) :
                i # j => CallTarget(i).info.UUID # CallTarget(j).info.UUID

(* One target by UUID and then by mount point; it passes the first time. *)
C12_Witness ==
    /\ call.done
    /\ Len(call.targets) = 2
    /\ call.targets[1] # call.targets[2]
    /\ CallTarget(1).err = NoErr
    /\ CallTarget(2).err = NoErr
    /\ CallTarget(1).info.UUID = CallTarget(2).info.UUID
    /\ call.err = ErrDuplicateTarget

(***************************************************************************)
(* C13: when some target is not an APFS volume or is not writable,         *)
(* Cloneable returns an error; it returns nil only if every target is an   *)
(* APFS volume and writable.                                                *)
(***************************************************************************)
C13_TargetMustBeWritableAPFS ==
    /\ (/\ call.done
         /\ \E i \in 1..Len(call.targets) :
                /\ CallTarget(i).err = NoErr
                /\ \/ CallTarget(i).info.FileSystemType # "apfs"
                   \/ ~CallTarget(i).info.Writable) =>
            call.err # NoErr
    /\ (call.done /\ call.err = NoErr) =>
            \A i \in 1..Len(call.targets) :
                /\ CallTarget(i).info.FileSystemType = "apfs"
                /\ CallTarget(i).info.Writable

(* The second of two targets is read-only and nothing else is wrong. *)
C13_Witness ==
    /\ call.done
    /\ Len(call.targets) = 2
    /\ CallTarget(2).err = NoErr
    /\ CallTarget(2).info.FileSystemType = "apfs"
    /\ ~CallTarget(2).info.Writable
    /\ call.err = ErrNotWritable

(***************************************************************************)
(* C14: when the source is not an APFS volume or has no snapshots,         *)
(* Cloneable returns an error, in either mode and whatever the targets.    *)
(***************************************************************************)
C14_SourceMustBeAPFSWithSnapshots ==
    (/\ call.done
     /\ CallSource.err = NoErr
     /\ \/ CallSource.info.FileSystemType # "apfs"
        \/ volumes[CallSource.info.UUID].snaps = <<>>) =>
        call.err # NoErr

(* An APFS source without snapshots, its listing working, with a target. *)
C14_Witness ==
    /\ call.done
    /\ call.initTargets
    /\ Len(call.targets) > 0
    /\ CallSource.err = NoErr
    /\ CallSource.info.FileSystemType = "apfs"
    /\ ~volumes[CallSource.info.UUID].listFails
    /\ volumes[CallSource.info.UUID].snaps = <<>>
    /\ call.err = ErrSourceNoSnapshots

(***************************************************************************)
(* C26: Cloneable invokes only Info and ListSnapshots on its DiskUtil, so  *)
(* it leaves the volumes as they are, and a second Cloneable with the same *)
(* arguments makes the same calls and returns the same result, in either   *)
(* mode.                                                                    *)
(***************************************************************************)
C26_CloneableOnlyReads ==
    /\ call.done =>
           \A i \in 1..Len(invoked) : invoked[i].op \in {"Info", "ListSnapshots"}
    /\ again.done =>
           /\ \A i \in 1..Len(again.invoked) :
                  again.invoked[i].op \in {"Info", "ListSnapshots"}
           /\ again.invoked = invoked
           /\ again.err = call.err

(* Both targets were read and listed, twice, in initialize mode. *)
C26_Witness ==
    /\ again.done
    /\ call.initTargets
    /\ Len(call.targets) = 2
    /\ Len(invoked) = 6
    /\ call.err = NoErr
    /\ again.err = NoErr

(***************************************************************************)
(* Package cloner: Clone. The collaborators that change volumes            *)
(* (asr.Restore, asr.DestructiveRestore, du.Rename, du.DeleteSnapshot)     *)
(* act on the same set of volumes; fails tells which of them return an     *)
(* error, and a call that returns an error leaves the volumes as they are. *)
(* With fails.dryrun the Cloner holds the dry-run collaborators instead.   *)
(***************************************************************************)
ErrCloneSourceInfo == "error getting volume info of source"
ErrCloneTargetInfo == "error getting volume info of target"
ErrFindCommon == "error finding latest snapshot in common between source and target: "
ErrRestoring == "error restoring"
ErrDeleting == "error deleting snapshot from target"
ErrSourceHasNoSnapshots == "source does not contain any snapshots"
ErrTargetContainsSnapshots == "aborting because target contains snapshots that would be erased"
ErrRenaming == "error renaming volume to original name"
ErrCollaborator == "exit status 1"

Invocation(op, target, to, from, name, err) ==
    [op |-> op, target |-> target.UUID, info |-> target, to |-> to, from |-> from,
     name |-> name, err |-> err]

NoFailures == [restore |-> FALSE, delete |-> FALSE, rename |-> FALSE, dryrun |-> FALSE]

DryRun == [NoFailures EXCEPT !.dryrun = TRUE]

(* Mutant: the dry-run Restore restores all the same. *)
dryRunRestore_Restores(vols, source, target, to, from) ==
    [vols |-> [vols EXCEPT ![target.UUID].snaps = <<to>> \o @,
                           ![target.UUID].info.Name = source.Name],
     err |-> NoErr]

(* asr dryRun.Restore *)
dryRunRestore(vols, source, target, to, from) == [vols |-> vols, err |-> NoErr]

(* asr dryRun.DestructiveRestore *)
dryRunDestructiveRestore(vols, source, target, to) == [vols |-> vols, err |-> NoErr]

(* diskutil dryRun.Rename *)
dryRunRename(vols, volume, name) == [vols |-> vols, err |-> NoErr]

(* diskutil dryRun.DeleteSnapshot *)
dryRunDeleteSnapshot(vols, volume, snap) == [vols |-> vols, err |-> NoErr]

(* asr.Restore: target gains to on top of its history, and source's name. *)
asrRestore(vols, fails, source, target, to, from) ==
    IF fails.dryrun THEN dryRunRestore(vols, source, target, to, from)
    ELSE IF fails.restore THEN [vols |-> vols, err |-> ErrCollaborator]
    ELSE [vols |-> [vols EXCEPT ![target.UUID].snaps = <<to>> \o @,
                                ![target.UUID].info.Name = source.Name],
          err |-> NoErr]

(* asr.DestructiveRestore: target is erased and holds to, under source's name. *)
asrDestructiveRestore(vols, fails, source, target, to) ==
    IF fails.dryrun THEN dryRunDestructiveRestore(vols, source, target, to)
    ELSE IF fails.restore THEN [vols |-> vols, err |-> ErrCollaborator]
    ELSE [vols |-> [vols EXCEPT ![target.UUID].snaps = <<to>>,
                                ![target.UUID].info.Name = source.Name],
          err |-> NoErr]

(* du.Rename *)
duRename(vols, fails, volume, name) ==
    IF fails.dryrun THEN dryRunRename(vols, volume, name)
    ELSE IF fails.rename THEN [vols |-> vols, err |-> ErrCollaborator]
    ELSE [vols |-> [vols EXCEPT ![volume.UUID].info.Name = name], err |-> NoErr]

(* du.DeleteSnapshot *)
duDeleteSnapshot(vols, fails, volume, snap) ==
    IF fails.dryrun THEN dryRunDeleteSnapshot(vols, volume, snap)
    ELSE IF fails.delete THEN [vols |-> vols, err |-> ErrCollaborator]
    ELSE [vols |-> [vols EXCEPT ![volume.UUID].snaps =
                        SelectSeq(@, LAMBDA s : s.UUID # snap.UUID)],
          err |-> NoErr]

(* What a step of Clone hands back: its error, the volumes, the calls made. *)
Outcome(err, vols, calls) == [err |-> err, vols |-> vols, invoked |-> calls]

(* Mutant: the common snapshot is deleted although Restore failed. *)
clone_PrunesAfterFailedRestore(vols, prune, fails, source, target) ==
    LET sourceSnaps == duListSnapshots(vols, source)
        targetSnaps == duListSnapshots(vols, target)
        common == latestCommonSnapshot(sourceSnaps.snaps, targetSnaps.snaps)
    IN  IF sourceSnaps.err # NoErr THEN Outcome(ErrListSource \o ": " \o sourceSnaps.err, vols, <<>>)
        ELSE IF targetSnaps.err # NoErr THEN Outcome(ErrListTarget \o ": " \o targetSnaps.err, vols, <<>>)
        ELSE IF common.err # NoErr THEN Outcome(ErrFindCommon \o common.err, vols, <<>>)
        ELSE LET latestSourceSnap == sourceSnaps.snaps[1]
                 restored == asrRestore(vols, fails, source, target,
                                        latestSourceSnap, common.snap)
                 restoreCall == Invocation("Restore", target, latestSourceSnap,
                                           common.snap, "", restored.err)
             IN  IF prune
                 THEN LET deleted == duDeleteSnapshot(restored.vols, fails, target, common.snap)
                          deleteCall == Invocation("DeleteSnapshot", target, ZeroSnapshot,
                                                   common.snap, "", deleted.err)
                      IN  IF restored.err # NoErr
                          THEN Outcome(ErrRestoring \o ": " \o restored.err, deleted.vols, <<restoreCall, deleteCall>>)
                          ELSE IF deleted.err # NoErr
                          THEN Outcome(ErrDeleting, deleted.vols, <<restoreCall, deleteCall>>)
                          ELSE Outcome(NoErr, deleted.vols, <<restoreCall, deleteCall>>)
                 ELSE IF restored.err # NoErr
                 THEN Outcome(ErrRestoring \o ": " \o restored.err, restored.vols, <<restoreCall>>)
                 ELSE Outcome(NoErr, restored.vols, <<restoreCall>>)

(* Mutant: Restore is handed the oldest snapshot of source, not the latest. *)
clone_RestoresToOldest(vols, prune, fails, source, target) ==
    LET sourceSnaps == duListSnapshots(vols, source)
        targetSnaps == duListSnapshots(vols, target)
        common == latestCommonSnapshot(sourceSnaps.snaps, targetSnaps.snaps)
    IN  IF sourceSnaps.err # NoErr THEN Outcome(ErrListSource \o ": " \o sourceSnaps.err, vols, <<>>)
        ELSE IF targetSnaps.err # NoErr THEN Outcome(ErrListTarget \o ": " \o targetSnaps.err, vols, <<>>)
        ELSE IF common.err # NoErr THEN Outcome(ErrFindCommon \o common.err, vols, <<>>)
        ELSE LET latestSourceSnap == sourceSnaps.snaps[Len(sourceSnaps.snaps)]
                 restored == asrRestore(vols, fails, source, target,
                                        latestSourceSnap, common.snap)
                 restoreCall == Invocation("Restore", target, latestSourceSnap,
                                           common.snap, "", restored.err)
             IN  IF restored.err # NoErr
                 THEN Outcome(ErrRestoring \o ": " \o restored.err, restored.vols, <<restoreCall>>)
                 ELSE IF prune
                 THEN LET deleted == duDeleteSnapshot(restored.vols, fails, target, common.snap)
                          deleteCall == Invocation("DeleteSnapshot", target, ZeroSnapshot,
                                                   common.snap, "", deleted.err)
                      IN  IF deleted.err # NoErr
                          THEN Outcome(ErrDeleting, deleted.vols, <<restoreCall, deleteCall>>)
                          ELSE Outcome(NoErr, deleted.vols, <<restoreCall, deleteCall>>)
                 ELSE Outcome(NoErr, restored.vols, <<restoreCall>>)

(* Mutant: prune deletes the oldest snapshot of target, not the common one. *)
clone_PrunesOldest(vols, prune, fails, source, target) ==
    LET sourceSnaps == duListSnapshots(vols, source)
        targetSnaps == duListSnapshots(vols, target)
        common == latestCommonSnapshot(sourceSnaps.snaps, targetSnaps.snaps)
    IN  IF sourceSnaps.err # NoErr THEN Outcome(ErrListSource \o ": " \o sourceSnaps.err, vols, <<>>)
        ELSE IF targetSnaps.err # NoErr THEN Outcome(ErrListTarget \o ": " \o targetSnaps.err, vols, <<>>)
        ELSE IF common.err # NoErr THEN Outcome(ErrFindCommon \o common.err, vols, <<>>)
        ELSE LET latestSourceSnap == sourceSnaps.snaps[1]
                 oldest == targetSnaps.snaps[Len(targetSnaps.snaps)]
                 restored == asrRestore(vols, fails, source, target,
                                        latestSourceSnap, common.snap)
                 restoreCall == Invocation("Restore", target, latestSourceSnap,
                                           common.snap, "", restored.err)
             IN  IF restored.err # NoErr
                 THEN Outcome(ErrRestoring \o ": " \o restored.err, restored.vols, <<restoreCall>>)
                 ELSE IF prune
                 THEN LET deleted == duDeleteSnapshot(restored.vols, fails, target, oldest)
                          deleteCall == Invocation("DeleteSnapshot", target, ZeroSnapshot,
                                                   oldest, "", deleted.err)
                      IN  IF deleted.err # NoErr
                          THEN Outcome(ErrDeleting, deleted.vols, <<restoreCall, deleteCall>>)
                          ELSE Outcome(NoErr, deleted.vols, <<restoreCall, deleteCall>>)
                 ELSE Outcome(NoErr, restored.vols, <<restoreCall>>)

(* Mutant: Restore is invoked before the common snapshot is looked at. *)
clone_RestoresBeforeResolving(vols, prune, fails, source, target) ==
    LET sourceSnaps == duListSnapshots(vols, source)
        targetSnaps == duListSnapshots(vols, target)
        common == latestCommonSnapshot(sourceSnaps.snaps, targetSnaps.snaps)
    IN  IF sourceSnaps.err # NoErr THEN Outcome(ErrListSource \o ": " \o sourceSnaps.err, vols, <<>>)
        ELSE IF targetSnaps.err # NoErr THEN Outcome(ErrListTarget \o ": " \o targetSnaps.err, vols, <<>>)
        ELSE IF Len(sourceSnaps.snaps) = 0 THEN Outcome(ErrFindCommon \o common.err, vols, <<>>)
        ELSE LET latestSourceSnap == sourceSnaps.snaps[1]
                 restored == asrRestore(vols, fails, source, target,
                                        latestSourceSnap, common.snap)
                 restoreCall == Invocation("Restore", target, latestSourceSnap,
                                           common.snap, "", restored.err)
             IN  IF common.err # NoErr
                 THEN Outcome(ErrFindCommon \o common.err, restored.vols, <<restoreCall>>)
                 ELSE IF restored.err # NoErr
                 THEN Outcome(ErrRestoring \o ": " \o restored.err, restored.vols, <<restoreCall>>)
                 ELSE Outcome(NoErr, restored.vols, <<restoreCall>>)

(* Cloner.clone *)
clone(vols, prune, fails, source, target) ==
    LET sourceSnaps == duListSnapshots(vols, source)
        targetSnaps == duListSnapshots(vols, target)
        common == latestCommonSnapshot(sourceSnaps.snaps, targetSnaps.snaps)
    IN  IF sourceSnaps.err # NoErr THEN Outcome(ErrListSource \o ": " \o sourceSnaps.err, vols, <<>>)
        ELSE IF targetSnaps.err # NoErr THEN Outcome(ErrListTarget \o ": " \o targetSnaps.err, vols, <<>>)
        ELSE IF common.err # NoErr THEN Outcome(ErrFindCommon \o common.err, vols, <<>>)
        ELSE LET latestSourceSnap == sourceSnaps.snaps[1]
                 restored == asrRestore(vols, fails, source, target,
                                        latestSourceSnap, common.snap)
                 restoreCall == Invocation("Restore", target, latestSourceSnap,
                                           common.snap, "", restored.err)
             IN  IF restored.err # NoErr
                 THEN Outcome(ErrRestoring \o ": " \o restored.err, restored.vols, <<restoreCall>>)
                 ELSE IF prune
                 THEN LET deleted == duDeleteSnapshot(restored.vols, fails, target, common.snap)
                          deleteCall == Invocation("DeleteSnapshot", target, ZeroSnapshot,
                                                   common.snap, "", deleted.err)
                      IN  IF deleted.err # NoErr
                          THEN Outcome(ErrDeleting, deleted.vols, <<restoreCall, deleteCall>>)
                          ELSE Outcome(NoErr, deleted.vols, <<restoreCall, deleteCall>>)
                 ELSE Outcome(NoErr, restored.vols, <<restoreCall>>)

(* Mutant: a target that holds snapshots is erased all the same. *)
destructiveClone_NoTargetCheck(vols, fails, source, target) ==
    LET sourceSnaps == duListSnapshots(vols, source)
        targetSnaps == duListSnapshots(vols, target)
    IN  IF sourceSnaps.err # NoErr THEN Outcome(ErrListSource \o ": " \o sourceSnaps.err, vols, <<>>)
        ELSE IF Len(sourceSnaps.snaps) = 0 THEN Outcome(ErrSourceHasNoSnapshots, vols, <<>>)
        ELSE IF targetSnaps.err # NoErr THEN Outcome(ErrListTarget \o ": " \o targetSnaps.err, vols, <<>>)
        ELSE LET latestSourceSnap == sourceSnaps.snaps[1]
                 restored == asrDestructiveRestore(vols, fails, source, target,
                                                   latestSourceSnap)
                 restoreCall == Invocation("DestructiveRestore", target, latestSourceSnap,
                                           ZeroSnapshot, "", restored.err)
             IN  IF restored.err # NoErr
                 THEN Outcome(ErrRestoring \o ": " \o restored.err, restored.vols, <<restoreCall>>)
                 ELSE Outcome(NoErr, restored.vols, <<restoreCall>>)

(* Mutant: the oldest snapshot of source is restored, not the latest. *)
destructiveClone_RestoresOldest(vols, fails, source, target) ==
    LET sourceSnaps == duListSnapshots(vols, source)
        targetSnaps == duListSnapshots(vols, target)
    IN  IF sourceSnaps.err # NoErr THEN Outcome(ErrListSource \o ": " \o sourceSnaps.err, vols, <<>>)
        ELSE IF Len(sourceSnaps.snaps) = 0 THEN Outcome(ErrSourceHasNoSnapshots, vols, <<>>)
        ELSE IF targetSnaps.err # NoErr THEN Outcome(ErrListTarget \o ": " \o targetSnaps.err, vols, <<>>)
        ELSE IF Len(targetSnaps.snaps) > 0 THEN Outcome(ErrTargetContainsSnapshots, vols, <<>>)
        ELSE LET latestSourceSnap == sourceSnaps.snaps[Len(sourceSnaps.snaps)]
                 restored == asrDestructiveRestore(vols, fails, source, target,
                                                   latestSourceSnap)
                 restoreCall == Invocation("DestructiveRestore", target, latestSourceSnap,
                                           ZeroSnapshot, "", restored.err)
             IN  IF restored.err # NoErr
                 THEN Outcome(ErrRestoring \o ": " \o restored.err, restored.vols, <<restoreCall>>)
                 ELSE Outcome(NoErr, restored.vols, <<restoreCall>>)

(* Cloner.destructiveClone *)
destructiveClone(vols, fails, source, target) ==
    LET sourceSnaps == duListSnapshots(vols, source)
        targetSnaps == duListSnapshots(vols, target)
    IN  IF sourceSnaps.err # NoErr THEN Outcome(ErrListSource \o ": " \o sourceSnaps.err, vols, <<>>)
        ELSE IF Len(sourceSnaps.snaps) = 0 THEN Outcome(ErrSourceHasNoSnapshots, vols, <<>>)
        ELSE IF targetSnaps.err # NoErr THEN Outcome(ErrListTarget \o ": " \o targetSnaps.err, vols, <<>>)
        ELSE IF Len(targetSnaps.snaps) > 0 THEN Outcome(ErrTargetContainsSnapshots, vols, <<>>)
        ELSE LET latestSourceSnap == sourceSnaps.snaps[1]
                 restored == asrDestructiveRestore(vols, fails, source, target,
                                                   latestSourceSnap)
                 restoreCall == Invocation("DestructiveRestore", target, latestSourceSnap,
                                           ZeroSnapshot, "", restored.err)
             IN  IF restored.err # NoErr
                 THEN Outcome(ErrRestoring \o ": " \o restored.err, restored.vols, <<restoreCall>>)
                 ELSE Outcome(NoErr, restored.vols, <<restoreCall>>)

(* Mutant: the target is renamed to the name it has after the restore. *)
Clone_RenamesToCurrentName(vols, prune, initTargets, fails, source, target) ==
    LET sourceInfo == duInfo(vols, source)
        targetInfo == duInfo(vols, target)
    IN  IF sourceInfo.err # NoErr
        THEN Outcome(ErrCloneSourceInfo \o ": " \o sourceInfo.err, vols, <<>>)
        ELSE IF targetInfo.err # NoErr
        THEN Outcome(ErrCloneTargetInfo \o ": " \o targetInfo.err, vols, <<>>)
        ELSE LET cloned == IF initTargets
                           THEN destructiveClone(vols, fails, sourceInfo.info, targetInfo.info)
                           ELSE clone(vols, prune, fails, sourceInfo.info, targetInfo.info)
             IN  IF cloned.err # NoErr THEN cloned
                 ELSE LET refreshed == duInfo(cloned.vols, target)
                          renamed == duRename(cloned.vols, fails, targetInfo.info,
                                              refreshed.info.Name)
                          renameCall == Invocation("Rename", targetInfo.info, ZeroSnapshot,
                                                   ZeroSnapshot, refreshed.info.Name,
                                                   renamed.err)
                      IN  Outcome(IF renamed.err # NoErr THEN ErrRenaming \o ": " \o renamed.err
                                  ELSE NoErr,
                                  renamed.vols, Append(cloned.invoked, renameCall))

(* Mutant: Info is read again after the restore and handed to Rename. *)
Clone_RefetchesTarget(vols, prune, initTargets, fails, source, target) ==
    LET sourceInfo == duInfo(vols, source)
        targetInfo == duInfo(vols, target)
    IN  IF sourceInfo.err # NoErr
        THEN Outcome(ErrCloneSourceInfo \o ": " \o sourceInfo.err, vols, <<>>)
        ELSE IF targetInfo.err # NoErr
        THEN Outcome(ErrCloneTargetInfo \o ": " \o targetInfo.err, vols, <<>>)
        ELSE LET cloned == IF initTargets
                           THEN destructiveClone(vols, fails, sourceInfo.info, targetInfo.info)
                           ELSE clone(vols, prune, fails, sourceInfo.info, targetInfo.info)
             IN  IF cloned.err # NoErr THEN cloned
                 ELSE LET refreshed == duInfo(cloned.vols, target)
                          renamed == duRename(cloned.vols, fails, refreshed.info,
                                              targetInfo.info.Name)
                          renameCall == Invocation("Rename", refreshed.info, ZeroSnapshot,
                                                   ZeroSnapshot, targetInfo.info.Name,
                                                   renamed.err)
                      IN  Outcome(IF renamed.err # NoErr THEN ErrRenaming \o ": " \o renamed.err
                                  ELSE NoErr,
                                  renamed.vols, Append(cloned.invoked, renameCall))

(* Cloner.Clone *)
Clone(vols, prune, initTargets, fails, source, target) ==
    LET sourceInfo == duInfo(vols, source)
        targetInfo == duInfo(vols, target)
    IN  IF sourceInfo.err # NoErr THEN Outcome(ErrCloneSourceInfo \o ": " \o sourceInfo.err, vols, <<>>)
        ELSE IF targetInfo.err # NoErr THEN Outcome(ErrCloneTargetInfo \o ": " \o targetInfo.err, vols, <<>>)
        ELSE LET cloned == IF initTargets
                           THEN destructiveClone(vols, fails, sourceInfo.info, targetInfo.info)
                           ELSE clone(vols, prune, fails, sourceInfo.info, targetInfo.info)
             IN  IF cloned.err # NoErr THEN cloned
                 ELSE LET renamed == duRename(cloned.vols, fails, targetInfo.info,
                                              targetInfo.info.Name)
                          renameCall == Invocation("Rename", targetInfo.info, ZeroSnapshot,
                                                   ZeroSnapshot, targetInfo.info.Name,
                                                   renamed.err)
                      IN  Outcome(IF renamed.err # NoErr THEN ErrRenaming \o ": " \o renamed.err
                                  ELSE NoErr,
                                  renamed.vols, Append(cloned.invoked, renameCall))

(***************************************************************************)
(* The world of a Clone: a source and a target, each holding some of three *)
(* snapshots, newest first, or failing to list them. The Cloner's options  *)
(* and the two locators are fixed when the run starts, as the flags and    *)
(* arguments of main are; Cloneable may be called ahead of Clone, and an   *)
(* external actor may create a snapshot on a volume in between.            *)
(***************************************************************************)
MaxExternal == 1

Snap3 == [Name |-> "snap-3", UUID |-> "uuid-3"]

(* A second snapshot under the UUID of Snap1. *)
Snap1Again == [Name |-> "snap-1-again", UUID |-> "uuid-1"]

CloneHistories ==
    {SelectSeq(<<Snap3, Snap2, Snap1>>, LAMBDA s : s \in kept) :
        kept \in SUBSET {Snap1, Snap2, Snap3}}
    \cup {<<Snap1Again, Snap2, Snap1>>, <<Snap2, Snap1Again, Snap1>>}

APFS == [FileSystemType |-> "apfs", FileSystem |-> "APFS"]

CloneSourceVolumes ==
    {Volume("123-source-uuid", "source-name", "/source/mount/point",
            FALSE, APFS, h, FALSE) : h \in CloneHistories}
    \cup {Volume("123-source-uuid", "source-name", "/source/mount/point",
                 FALSE, APFS, <<>>, TRUE)}

CloneTargetVolumes ==
    {Volume("123-target1-uuid", "target1-name", "/target1/mount/point",
            TRUE, APFS, h, FALSE) : h \in CloneHistories}
    \cup {Volume("123-target1-uuid", "target1-name", "/target1/mount/point",
                 TRUE, APFS, <<>>, TRUE)}

CloneTargetLocators ==
    {"/target1/mount/point", "/source/mount/point", "not-a-volume-uuid"}

(* Clone returns at the first collaborator that fails, so one failure is enough. *)
Failures ==
    {NoFailures, DryRun,
     [NoFailures EXCEPT !.restore = TRUE],
     [NoFailures EXCEPT !.delete = TRUE],
     [NoFailures EXCEPT !.rename = TRUE]}

InitClone ==
    /\ \E s \in CloneSourceVolumes, t \in CloneTargetVolumes :
           volumes = (s.info.UUID :> s) @@ (t.info.UUID :> t)
    /\ \E prune \in BOOLEAN, initTargets \in BOOLEAN,
          source \in SourceLocators, target \in CloneTargetLocators :
           call = [done |-> FALSE, prune |-> prune, initTargets |-> initTargets,
                   dryrun |-> FALSE, source |-> source, target |-> target,
                   err |-> NoErr, pre |-> volumes]
    /\ validated = [done |-> FALSE, err |-> NoErr, pre |-> volumes]
    /\ invoked = <<>>
    /\ again = [done |-> FALSE, err |-> NoErr, invoked |-> <<>>]
    /\ srcSnaps = Idle
    /\ tgtSnaps = Idle
    /\ resolved = Idle
    /\ provider = Idle
    /\ listed = Idle

(* c.Cloneable(source, target), called before c.Clone as main does. *)
CallCloneableFirst ==
    /\ ~call.done
    /\ ~validated.done
    /\ validated' = [done |-> TRUE,
                     err |-> Cloneable(volumes, call.initTargets, call.source,
                                       <<call.target>>),
                     pre |-> volumes]
    /\ UNCHANGED <<srcSnaps, tgtSnaps, resolved, provider, listed, volumes, call,
                   invoked, again>>

ExternalSnapshots ==
    {s \in UNION {{volumes[v].snaps[i] : i \in 1..Len(volumes[v].snaps)} :
                     v \in DOMAIN volumes} : s.Name = "external"}

(* Somebody else creates a snapshot on a volume; it is the newest there. *)
TakeSnapshot ==
    /\ ~call.done
    /\ Cardinality(ExternalSnapshots) < MaxExternal
    /\ \E v \in DOMAIN volumes :
           /\ ~volumes[v].listFails
           /\ volumes' = [volumes EXCEPT ![v].snaps =
                  <<[Name |-> "external",
                     UUID |-> "uuid-external-"
                              \o ToString(Cardinality(ExternalSnapshots) + 1)]>> \o @]
    /\ UNCHANGED <<srcSnaps, tgtSnaps, resolved, provider, listed, call, validated,
                   invoked, again>>

(* c.Clone(source, target), its collaborators failing as fails tells. *)
CallClone ==
    /\ ~call.done
    /\ \E fails \in Failures :
           LET out == Clone(volumes, call.prune, call.initTargets, fails,
                            call.source, call.target)
           IN  /\ call' = [call EXCEPT !.done = TRUE, !.err = out.err, !.pre = volumes,
                                       !.dryrun = fails.dryrun]
               /\ volumes' = out.vols
               /\ invoked' = out.invoked
    /\ UNCHANGED <<srcSnaps, tgtSnaps, resolved, provider, listed, validated, again>>

(***************************************************************************)
(* After a Clone that acted on the volumes and returned nil, the same     *)
(* pair is cloned once more, by a Cloner in incremental mode.              *)
(***************************************************************************)
CallCloneAgain ==
    /\ call.done
    /\ call.err = NoErr
    /\ ~call.dryrun
    /\ ~again.done
    /\ \E fails \in Failures :
           LET out == Clone(volumes, call.prune, FALSE, fails, call.source, call.target)
           IN  /\ again' = [done |-> TRUE, err |-> out.err, invoked |-> out.invoked]
               /\ volumes' = out.vols
    /\ UNCHANGED <<srcSnaps, tgtSnaps, resolved, provider, listed, call, validated,
                   invoked>>

NextClone == CallCloneableFirst \/ TakeSnapshot \/ CallClone \/ CallCloneAgain

SpecClone == InitClone /\ [][NextClone]_vars

(* The volumes that the locators of the Clone named when it started. *)
PreSource == duInfo(call.pre, call.source)

PreTarget == duInfo(call.pre, call.target)

PreSnaps(v) == call.pre[v.info.UUID].snaps

PreListable(v) == ~call.pre[v.info.UUID].listFails

Invoked(op) == SelectSeq(invoked, LAMBDA c : c.op = op)

Located == call.done /\ PreSource.err = NoErr /\ PreTarget.err = NoErr

(* A Clone whose collaborators act on the volumes returned nil. *)
Succeeded == call.done /\ call.err = NoErr /\ ~call.dryrun

(***************************************************************************)
(* C15: in initialize mode, when the history of target is not empty,       *)
(* Cloneable returns an error, and Clone returns an error without invoking *)
(* DestructiveRestore, Restore, Rename or DeleteSnapshot; Clone decides on *)
(* the history it reads itself, whatever an earlier Cloneable returned.    *)
(***************************************************************************)
C15_InitializeRefusesTargetWithSnapshots ==
    /\ (/\ validated.done
        /\ call.initTargets
        /\ duInfo(validated.pre, call.target).err = NoErr
        /\ validated.pre[duInfo(validated.pre, call.target).info.UUID].snaps # <<>>) =>
           validated.err # NoErr
    /\ (/\ call.done
        /\ call.initTargets
        /\ PreTarget.err = NoErr
        /\ PreSnaps(PreTarget) # <<>>) =>
           /\ call.err # NoErr
           /\ invoked = <<>>
           /\ volumes = call.pre

(* Cloneable passed on an empty target, which then got a snapshot. *)
C15_Witness ==
    /\ validated.done
    /\ validated.err = NoErr
    /\ call.done
    /\ call.initTargets
    /\ PreSnaps(PreTarget) # <<>>
    /\ call.err = ErrTargetContainsSnapshots
    /\ invoked = <<>>

(***************************************************************************)
(* C16: a successful incremental Clone invokes Restore exactly once, with  *)
(* to the latest snapshot of source and from the snapshot that             *)
(* latestCommonSnapshot returns; source keeps its history and target       *)
(* holds the latest snapshot of source on top of what it held (before any  *)
(* pruning).                                                                *)
(***************************************************************************)
C16_IncrementalRestoresLatestFromCommon ==
    (Succeeded /\ ~call.initTargets) =>
        /\ Len(Invoked("Restore")) = 1
        /\ Len(Invoked("DestructiveRestore")) = 0
        /\ invoked[1].op = "Restore"
        /\ invoked[1].err = NoErr
        /\ invoked[1].target = PreTarget.info.UUID
        /\ invoked[1].to = PreSnaps(PreSource)[1]
        /\ invoked[1].from =
               latestCommonSnapshot(PreSnaps(PreSource), PreSnaps(PreTarget)).snap
        /\ volumes[PreSource.info.UUID].snaps = PreSnaps(PreSource)
        /\ volumes[PreTarget.info.UUID].snaps[1] = PreSnaps(PreSource)[1]
        /\ ~call.prune =>
               volumes[PreTarget.info.UUID].snaps =
                   <<PreSnaps(PreSource)[1]>> \o PreSnaps(PreTarget)

(* Source [S2, S1] and target [S1] give target [S2, S1]. *)
C16_Witness ==
    /\ Succeeded
    /\ ~call.initTargets
    /\ ~call.prune
    /\ PreSnaps(PreSource) = <<Snap2, Snap1>>
    /\ PreSnaps(PreTarget) = <<Snap1>>
    /\ volumes[PreTarget.info.UUID].snaps = <<Snap2, Snap1>>
    /\ volumes[PreSource.info.UUID].snaps = <<Snap2, Snap1>>

(***************************************************************************)
(* C17: a successful incremental Clone with prune deletes from target the  *)
(* common snapshot it restored from and nothing else, so target is left    *)
(* with its history after the restore less that snapshot; without prune    *)
(* DeleteSnapshot is never invoked.                                         *)
(***************************************************************************)
C17_PruneDeletesTheCommonSnapshotOnly ==
    /\ (Succeeded /\ ~call.initTargets /\ call.prune) =>
           LET common == latestCommonSnapshot(PreSnaps(PreSource),
                                              PreSnaps(PreTarget)).snap
           IN  /\ Len(Invoked("DeleteSnapshot")) = 1
               /\ Invoked("DeleteSnapshot")[1].target = PreTarget.info.UUID
               /\ Invoked("DeleteSnapshot")[1].from = common
               /\ volumes[PreTarget.info.UUID].snaps =
                      SelectSeq(<<PreSnaps(PreSource)[1]>> \o PreSnaps(PreTarget),
                                LAMBDA s : s.UUID # common.UUID)
    /\ (call.done /\ ~call.prune) => Len(Invoked("DeleteSnapshot")) = 0

(* Target held two snapshots; the older one, not the common one, stays. *)
C17_Witness ==
    /\ Succeeded
    /\ ~call.initTargets
    /\ call.prune
    /\ PreSnaps(PreSource) = <<Snap3, Snap2, Snap1>>
    /\ PreSnaps(PreTarget) = <<Snap2, Snap1>>
    /\ volumes[PreTarget.info.UUID].snaps = <<Snap3, Snap1>>

(***************************************************************************)
(* C18: a successful Clone in initialize mode invokes DestructiveRestore   *)
(* exactly once, with to the latest snapshot of source, and never Restore; *)
(* it does not depend on a common snapshot, and target is left with        *)
(* exactly the latest snapshot of source.                                   *)
(***************************************************************************)
C18_InitializeRestoresLatestOnly ==
    (Succeeded /\ call.initTargets) =>
        /\ PreSnaps(PreSource) # <<>>
        /\ PreSnaps(PreTarget) = <<>>
        /\ Len(Invoked("DestructiveRestore")) = 1
        /\ Len(Invoked("Restore")) = 0
        /\ invoked[1].op = "DestructiveRestore"
        /\ invoked[1].target = PreTarget.info.UUID
        /\ invoked[1].to = PreSnaps(PreSource)[1]
        /\ invoked[1].from = ZeroSnapshot
        /\ volumes[PreTarget.info.UUID].snaps = <<PreSnaps(PreSource)[1]>>

(* Source [S2, S1] and an empty target, which have nothing in common. *)
C18_Witness ==
    /\ Succeeded
    /\ call.initTargets
    /\ PreSnaps(PreSource) = <<Snap2, Snap1>>
    /\ latestCommonSnapshot(PreSnaps(PreSource), PreSnaps(PreTarget)).err = ErrNoCommon
    /\ volumes[PreTarget.info.UUID].snaps = <<Snap2>>

(***************************************************************************)
(* C19: when a Clone cannot find source or target, cannot list a history,  *)
(* or finds the histories unfit (no common snapshot, same latest snapshot, *)
(* target ahead, empty source; in initialize mode an empty source or a     *)
(* target with snapshots), it returns an error and has invoked none of     *)
(* Restore, DestructiveRestore, Rename, DeleteSnapshot: the volumes are as *)
(* they were.                                                               *)
(***************************************************************************)
C19_EarlyFailureInvokesNothing ==
    (/\ call.done
     /\ \/ PreSource.err # NoErr
        \/ PreTarget.err # NoErr
        \/ ~PreListable(PreSource)
        \/ ~PreListable(PreTarget)
        \/ /\ ~call.initTargets
           /\ latestCommonSnapshot(PreSnaps(PreSource), PreSnaps(PreTarget)).err # NoErr
        \/ /\ call.initTargets
           /\ PreSnaps(PreSource) = <<>> \/ PreSnaps(PreTarget) # <<>>) =>
        /\ call.err # NoErr
        /\ invoked = <<>>
        /\ volumes = call.pre

(* Target is ahead of source: it holds a snapshot newer than source's latest. *)
C19_Witness ==
    /\ Located
    /\ ~call.initTargets
    /\ PreSnaps(PreSource) = <<Snap2, Snap1>>
    /\ PreSnaps(PreTarget) = <<Snap3, Snap2>>
    /\ call.err = ErrFindCommon \o ErrTargetAhead
    /\ invoked = <<>>
    /\ volumes = call.pre

(***************************************************************************)
(* C20: in incremental mode with prune, when Restore returns an error,     *)
(* DeleteSnapshot is not invoked in that Clone and Clone returns an error. *)
(***************************************************************************)
C20_NoPruneAfterFailedRestore ==
    (/\ call.done
     /\ ~call.initTargets
     /\ call.prune
     /\ \E i \in 1..Len(invoked) :
            invoked[i].op = "Restore" /\ invoked[i].err # NoErr) =>
        /\ Len(Invoked("DeleteSnapshot")) = 0
        /\ call.err # NoErr

(* Restore was invoked and failed; it is the only call made. *)
C20_Witness ==
    /\ call.done
    /\ ~call.initTargets
    /\ call.prune
    /\ Len(invoked) = 1
    /\ invoked[1].op = "Restore"
    /\ invoked[1].err # NoErr
    /\ call.err = ErrRestoring \o ": " \o ErrCollaborator

(***************************************************************************)
(* C21: in incremental mode with prune, DeleteSnapshot on the target is    *)
(* invoked only after Restore and Rename of the target have both returned  *)
(* successfully; when Rename fails the common snapshot is not deleted.     *)
(***************************************************************************)
C21_PruneOnlyAfterRename ==
    (call.done /\ ~call.initTargets /\ call.prune) =>
        \A i \in 1..Len(invoked) :
            invoked[i].op = "DeleteSnapshot" =>
                /\ \E j \in 1..(i - 1) :
                       invoked[j].op = "Restore" /\ invoked[j].err = NoErr
                /\ \E j \in 1..(i - 1) :
                       invoked[j].op = "Rename" /\ invoked[j].err = NoErr

(***************************************************************************)
(* C22: after every successful Clone, in either mode, the target has the   *)
(* name it had when Clone started: Rename is invoked on the target, last,  *)
(* with the name that Info returned before the restore.                     *)
(***************************************************************************)
C22_TargetKeepsItsName ==
    Succeeded =>
        /\ volumes[PreTarget.info.UUID].info.Name = PreTarget.info.Name
        /\ invoked[Len(invoked)].op = "Rename"
        /\ invoked[Len(invoked)].target = PreTarget.info.UUID
        /\ invoked[Len(invoked)].name = PreTarget.info.Name
        /\ Len(Invoked("Rename")) = 1

(* What the restore of this Clone, taken alone, makes of the volumes. *)
RestoredVolumes ==
    IF call.initTargets
    THEN asrDestructiveRestore(call.pre, NoFailures, PreSource.info, PreTarget.info,
                               invoked[1].to).vols
    ELSE asrRestore(call.pre, NoFailures, PreSource.info, PreTarget.info,
                    invoked[1].to, invoked[1].from).vols

(* The restore gave the target the name of the source; Clone took it back. *)
C22_Witness ==
    /\ Succeeded
    /\ call.initTargets
    /\ RestoredVolumes[PreTarget.info.UUID].info.Name = "source-name"
    /\ volumes[PreTarget.info.UUID].info.Name = "target1-name"

C24_DryRunChangesNothing ==
    (call.done /\ call.dryrun) =>
        LET real == Clone(call.pre, call.prune, call.initTargets, NoFailures,
                          call.source, call.target)
        IN  /\ volumes = call.pre
            /\ \A i \in 1..Len(invoked) : invoked[i].err = NoErr
            /\ invoked = real.invoked
            /\ call.err = real.err

(* A dry run of an incremental Clone with prune: three calls, no change. *)
C24_Witness ==
    /\ call.done
    /\ call.dryrun
    /\ call.prune
    /\ ~call.initTargets
    /\ call.err = NoErr
    /\ Len(invoked) = 3
    /\ volumes = call.pre

(* The errors that the collaborators returned to this Clone. *)
CollaboratorErrors ==
    {invoked[i].err : i \in {j \in 1..Len(invoked) : invoked[j].err # NoErr}}
    \cup (IF PreSource.err # NoErr THEN {PreSource.err}
          ELSE IF PreTarget.err # NoErr THEN {PreTarget.err}
          ELSE IF ~PreListable(PreSource) THEN {ErrListFailed}
          ELSE IF /\ ~PreListable(PreTarget)
                  /\ call.initTargets => PreSnaps(PreSource) # <<>>
               THEN {ErrListFailed}
          ELSE {})

CloneContexts ==
    {ErrCloneSourceInfo, ErrCloneTargetInfo, ErrListSource, ErrListTarget,
     ErrRestoring, ErrDeleting, ErrRenaming}

(***************************************************************************)
(* C27: when a collaborator call of Clone returns an error, Clone returns  *)
(* an error that carries the collaborator's error as its cause.            *)
(***************************************************************************)
C27_ErrorCarriesCause ==
    call.done =>
        \A cause \in CollaboratorErrors :
            \E context \in CloneContexts : call.err = context \o ": " \o cause

(***************************************************************************)
(* C28: whenever Clone reaches Restore, to and from have different UUIDs,  *)
(* also for histories in which a UUID occurs twice.                         *)
(***************************************************************************)
C28_RestoreBetweenDifferentSnapshots ==
    /\ call.done =>
           \A i \in 1..Len(invoked) :
               invoked[i].op = "Restore" => invoked[i].to.UUID # invoked[i].from.UUID
    /\ again.done =>
           \A i \in 1..Len(again.invoked) :
               again.invoked[i].op = "Restore" =>
                   again.invoked[i].to.UUID # again.invoked[i].from.UUID

(* The source holds two snapshots under one UUID, the newer one its latest. *)
C28_Witness ==
    /\ Located
    /\ PreSnaps(PreSource) = <<Snap1Again, Snap2, Snap1>>
    /\ PreSnaps(PreTarget) = <<Snap2, Snap1>>
    /\ Len(invoked) > 0
    /\ invoked[1].op = "Restore"
    /\ invoked[1].to = Snap1Again
    /\ invoked[1].from = Snap2

(***************************************************************************)
(* C29: a Clone whose source and target locators name one volume returns   *)
(* an error and invokes neither Restore nor DestructiveRestore, in either  *)
(* mode and for every history of that volume.                               *)
(***************************************************************************)
C29_CloneOntoItselfIsAnError ==
    (Located /\ PreSource.info.UUID = PreTarget.info.UUID) =>
        /\ call.err # NoErr
        /\ Len(Invoked("Restore")) = 0
        /\ Len(Invoked("DestructiveRestore")) = 0

(* The volume holds snapshots; the resolver finds its latest in both. *)
C29_Witness ==
    /\ Located
    /\ call.source # call.target
    /\ PreSource.info.UUID = PreTarget.info.UUID
    /\ ~call.initTargets
    /\ PreSnaps(PreSource) # <<>>
    /\ call.err = ErrFindCommon \o ErrSameLatest
    /\ invoked = <<>>

(***************************************************************************)
(* C30: after a successful Clone, in whatever mode, the newest snapshot of *)
(* the target is the newest snapshot of the source, so an incremental      *)
(* Clone of the same pair, the source unchanged, returns the "same latest  *)
(* snapshot" error and invokes no restore, rename or delete.               *)
(***************************************************************************)
C30_SecondCloneFindsSameLatest ==
    /\ (Succeeded /\ ~again.done) =>
           volumes[PreTarget.info.UUID].snaps[1] = volumes[PreSource.info.UUID].snaps[1]
    /\ (Succeeded /\ again.done) =>
           /\ again.err = ErrFindCommon \o ErrSameLatest
           /\ again.invoked = <<>>
           /\ volumes[PreTarget.info.UUID].snaps[1] = volumes[PreSource.info.UUID].snaps[1]

(* An initialize Clone, then an incremental one with nothing left to do. *)
C30_Witness ==
    /\ Succeeded
    /\ call.initTargets
    /\ again.done
    /\ again.err = ErrFindCommon \o ErrSameLatest
    /\ again.invoked = <<>>

(***************************************************************************)
(* Command main. The process is at one of the positions "start",           *)
(* "cloneable", "confirm", "clone" (the loop over targets), "exited" (it   *)
(* exited before the loop) and "cloned" (it ended after the loop); exit is *)
(* the status it ended with, 0 for a return from main.                      *)
(***************************************************************************)
MaxArgs == 3

ErrArgsRequired == "<source volume> and <target volume> are required"
ErrTargetRequired == "at least one <target volume> is required"
ErrNotAVolume == "is not a valid volume"
ErrIncompatibleFlags == "-initialize and -prune are incompatible"
ErrRejected == "-initialize confirmation rejected"
ErrEndOfInput == "EOF"

(* The arguments that strings.HasPrefix(_, "-") holds of. *)
DashArguments == {"-prune"}

(* parseArguments, on flag.Args() *)
parseArguments(args) ==
    IF Len(args) < 1 THEN [source |-> "", targets |-> <<>>, err |-> ErrArgsRequired]
    ELSE IF Len(args) < 2
    THEN [source |-> "", targets |-> <<>>, err |-> ErrTargetRequired]
    ELSE IF \E i \in 1..Len(args) : args[i] \in DashArguments
    THEN [source |-> "", targets |-> <<>>, err |-> ErrNotAVolume]
    ELSE [source |-> args[1], targets |-> Tail(args), err |-> NoErr]

(* validateFlags *)
validateFlags(initialize, prune) ==
    IF initialize /\ prune THEN ErrIncompatibleFlags ELSE NoErr

(* confirm, on the line read from stdin, trimmed and in lower case. *)
confirm(response) ==
    IF response = ErrEndOfInput THEN ErrEndOfInput
    ELSE IF response \in {"y", "yes"} THEN NoErr
    ELSE ErrRejected

Responses == {"y", "yes", "n", "", ErrEndOfInput}

(* Mutant: the loop over targets ends with the first Clone that fails. *)
afterClone_StopsAtFailure(m, target, err) ==
    IF err # NoErr
    THEN [m EXCEPT !.errs = MapPut(@, target, err), !.next = Len(m.targets) + 1]
    ELSE [m EXCEPT !.next = @ + 1]

(* One round of the loop over targets, after Clone returned err. *)
afterClone(m, target, err) ==
    IF err # NoErr
    THEN [m EXCEPT !.errs = MapPut(@, target, err), !.next = @ + 1]
    ELSE [m EXCEPT !.next = @ + 1]

(* The status main ends with after the loop. *)
exitStatus(errs) == IF Cardinality(DOMAIN errs) > 0 THEN 1 ELSE 0

MainArguments ==
    {"123-source-uuid", "123-target1-uuid", "123-target2-uuid", "-prune"}

MainSourceVolumes ==
    {Volume("123-source-uuid", "source-name", "/source/mount/point",
            FALSE, APFS, <<Snap2, Snap1>>, FALSE)}

MainTarget1Volumes ==
    {Volume("123-target1-uuid", "target1-name", "/target1/mount/point",
            TRUE, APFS, h, FALSE) : h \in {<<>>, <<Snap1>>}}

MainTarget2Volumes ==
    {Volume("123-target2-uuid", "target2-name", "/target2/mount/point",
            TRUE, APFS, h, FALSE) : h \in {<<>>, <<Snap1>>}}

InitMain ==
    /\ \E s \in MainSourceVolumes, t1 \in MainTarget1Volumes, t2 \in MainTarget2Volumes :
           volumes = (s.info.UUID :> s) @@ (t1.info.UUID :> t1) @@ (t2.info.UUID :> t2)
    /\ call = [pc |-> "start", prune |-> FALSE, initialize |-> FALSE, dryrun |-> FALSE,
               source |-> "", targets |-> <<>>, next |-> 1, errs |-> <<>>, exit |-> 0]
    /\ invoked = <<>>
    /\ srcSnaps = Idle
    /\ tgtSnaps = Idle
    /\ resolved = Idle
    /\ provider = Idle
    /\ listed = Idle
    /\ validated = Idle
    /\ again = Idle

Exited(m, status) == [m EXCEPT !.pc = "exited", !.exit = status]

(* flag.Parse, parseArguments and validateFlags *)
MainParse ==
    /\ call.pc = "start"
    /\ \E prune \in BOOLEAN, initialize \in BOOLEAN, dryrun \in BOOLEAN,
          args \in SeqsUpTo(MainArguments, MaxArgs) :
           LET parsed == parseArguments(args)
               m == [call EXCEPT !.prune = prune, !.initialize = initialize,
                                 !.dryrun = dryrun, !.source = parsed.source,
                                 !.targets = parsed.targets]
           IN  call' = IF parsed.err # NoErr THEN Exited(m, 1)
                       ELSE IF validateFlags(initialize, prune) # NoErr THEN Exited(m, 1)
                       ELSE [m EXCEPT !.pc = "cloneable"]
    /\ UNCHANGED <<srcSnaps, tgtSnaps, resolved, provider, listed, volumes, validated,
                   invoked, again>>

(* c.Cloneable(source, targets...) *)
MainCloneable ==
    /\ call.pc = "cloneable"
    /\ call' = IF Cloneable(volumes, call.initialize, call.source, call.targets) # NoErr
               THEN Exited(call, 1)
               ELSE [call EXCEPT !.pc = "confirm"]
    /\ UNCHANGED <<srcSnaps, tgtSnaps, resolved, provider, listed, volumes, validated,
                   invoked, again>>

(* confirm(source, targets) *)
MainConfirm ==
    /\ call.pc = "confirm"
    /\ \E response \in Responses :
           call' = IF confirm(response) # NoErr THEN Exited(call, 1)
                   ELSE [call EXCEPT !.pc = "clone"]
    /\ UNCHANGED <<srcSnaps, tgtSnaps, resolved, provider, listed, volumes, validated,
                   invoked, again>>

(* One round of the loop over targets: c.Clone(source, target). *)
MainClone ==
    /\ call.pc = "clone"
    /\ call.next <= Len(call.targets)
    /\ \E fails \in Failures :
           /\ fails.dryrun = call.dryrun
           /\ LET target == call.targets[call.next]
                  out == Clone(volumes, call.prune, call.initialize, fails,
                               call.source, target)
              IN  /\ call' = afterClone(call, target, out.err)
                  /\ volumes' = out.vols
                  /\ invoked' = Append(invoked, [source |-> call.source,
                                                 target |-> target, err |-> out.err])
    /\ UNCHANGED <<srcSnaps, tgtSnaps, resolved, provider, listed, validated, again>>

(* After the loop: exit with 1 when errs is not empty, return otherwise. *)
MainEnd ==
    /\ call.pc = "clone"
    /\ call.next > Len(call.targets)
    /\ call' = [call EXCEPT !.pc = "cloned", !.exit = exitStatus(call.errs)]
    /\ UNCHANGED <<srcSnaps, tgtSnaps, resolved, provider, listed, volumes, validated,
                   invoked, again>>

NextMain == MainParse \/ MainCloneable \/ MainConfirm \/ MainClone \/ MainEnd

SpecMain == InitMain /\ [][NextMain]_vars

(***************************************************************************)
(* C25: given several targets, main runs Clone once per target, one after  *)
(* the other in the order given; a Clone that fails does not keep Clone    *)
(* from being invoked for every later target, and the process exits with   *)
(* failure after the last target exactly when at least one Clone failed.   *)
(***************************************************************************)
C25_EveryTargetIsCloned ==
    /\ call.pc = "clone" =>
           /\ Len(invoked) = call.next - 1
           /\ \A i \in 1..Len(invoked) :
                  invoked[i].source = call.source /\ invoked[i].target = call.targets[i]
    /\ call.pc = "cloned" =>
           /\ Len(invoked) = Len(call.targets)
           /\ \A i \in 1..Len(invoked) :
                  invoked[i].source = call.source /\ invoked[i].target = call.targets[i]
           /\ call.exit = 1 <=> \E i \in 1..Len(invoked) : invoked[i].err # NoErr
           /\ call.exit \in {0, 1}
    /\ call.pc \in {"start", "cloneable", "confirm", "exited"} => invoked = <<>>

(* The first of two Clones failed, the second succeeded. *)
C25_Witness ==
    /\ call.pc = "cloned"
    /\ Len(call.targets) = 2
    /\ Len(invoked) = 2
    /\ invoked[1].err # NoErr
    /\ invoked[2].err = NoErr
    /\ volumes["123-target2-uuid"].snaps[1] = Snap2
    /\ call.exit = 1

====
